---- MODULE Spec2Model ----
(***************************************************************************)
(* Phase 1 of the disclosure pipeline (src/ingest/events.py): the event    *)
(* classifier, the date-window generator, the paginated filing lister, the *)
(* checkpoint store and the backfill_events run that ties them together;   *)
(* the transport DartClient.get (src/common/dart_client.py); and phase 2,  *)
(* enrich_events_detail (src/ingest/events_detail.py): its merge, its text *)
(* functions and try_enrich_one, which gathers the texts of one filing.    *)
(*                                                                         *)
(* Text is modelled as a sequence of characters; a Hangul syllable is      *)
(* written as its romanisation ("hap" "byeong" for the two syllables of    *)
(* the merger keyword), a blank as " ".  Dates are day numbers.            *)
(***************************************************************************)
EXTENDS Integers, Sequences, FiniteSets, TLC

VARIABLES
    \* _classify_event called on its own
    report_nm, cls_result, cls_pc,
    \* _daterange_chunks called on its own
    bgn, end, step_days, cur, chunks, gen_pc,
    \* _write_checkpoint called on its own: the rows and mode it is given, the
    \* table it found at out_path
    ck_rows, ck_mode, ck_old, ck_pc,
    \* the environment of a backfill_events run: the company directory at
    \* data/corp_master.parquet and the table at out_path
    corp_master, file,
    \* backfill_events: its position, its locals and those of the
    \* _fetch_list_for_company call in progress
    pc, start_date, end_date, dim, idx, win, page_no, rows, j, lst, all_rows,
    \* history of the run: the total_count of every page read in the current
    \* window, the last call of _write_checkpoint, and (for a re-run) the
    \* requests made with the responses they got
    totals, ckpt, run, log, req_no, file_run1,
    \* more history of the run: the responses read in the current window, the
    \* number of windows abandoned on an exception, the number of sleeps made
    \* since the last request, and the filing the list endpoint holds when
    \* the run is made against a scripted endpoint; the company-windows whose
    \* first page has been requested
    pages, skipped, sleeps, filed, queried,
    \* DartClient.get called on its own: the client's max_retries, the loop
    \* variable, the last response (r), the sleeps made (in units of sleep_sec),
    \* the outcomes of the HTTP requests sent, how the call ended and with what
    max_retries, attempt, last_r, waits, exchanges, get_pc, get_ret,
    \* enrich_events_detail: the tables at events_in and events_out, its
    \* position and its locals df, keys and enriched
    events_in, events_out, en_pc, df, keys, enriched,
    \* a text function of events_detail.py called on its own: its argument,
    \* how the call ended and with what
    text, tx_pc, tx_ret,
    \* try_enrich_one for the receipt number in hand: its position, what the
    \* remote side holds for the filing, its locals xml_bytes, items, the
    \* loop index and texts, and the history of the transport calls it made
    \* and of the blobs it handed to a parser
    te_pc, remote, xml_bytes, items, te_i, texts, calls, parsed

clsVars == <<report_nm, cls_result, cls_pc>>
genVars == <<bgn, end, step_days, cur, chunks, gen_pc>>
ckVars == <<ck_rows, ck_mode, ck_old, ck_pc>>
envVars == <<corp_master, file>>
runVars == <<pc, start_date, end_date, dim, idx, win, page_no, rows, j, lst,
             all_rows>>
histVars == <<totals, ckpt, run, log, req_no, file_run1, pages, skipped,
              sleeps, filed, queried>>
getVars == <<max_retries, attempt, last_r, waits, exchanges, get_pc, get_ret>>
enVars == <<events_in, events_out, en_pc, df, keys, enriched>>
txVars == <<text, tx_pc, tx_ret>>
teVars == <<te_pc, remote, xml_bytes, items, te_i, texts, calls, parsed>>
moreVars == <<txVars, teVars>>
auxVars == <<getVars, enVars, moreVars>>
vars == <<clsVars, genVars, ckVars, envVars, runVars, histVars, auxVars>>

(***************************************************************************)
(* Bounds of the model                                                     *)
(***************************************************************************)
\* report titles are built from at most MaxParts fragments
MaxParts == 2
\* dates given to _daterange_chunks range over 0..MaxDay
MaxDay == 6
\* window sizes given to _daterange_chunks range over 1..MaxStep
MaxStep == 4
\* the date range of a run spans RunSpanDays days (365 * years in
\* backfill_events): two windows of WINDOW_DAYS
RunSpanDays == 100
\* the list endpoint reports totals of at most MaxPages pages
MaxPages == 2
\* rows between interim checkpoints: 5000 in events.py:16, scaled down so that
\* a run of a few windows passes several multiples of it
CHECKPOINT_EVERY == 2
\* tables given to _write_checkpoint on its own hold at most MaxTable rows
MaxTable == 2
\* DartClient is constructed with max_retries in 0..MaxRetries (3 by default,
\* dart_client.py:7)
MaxRetries == 3
\* tables given to enrich_events_detail hold at most MaxEvents rows
MaxEvents == 2
\* texts given to _take_summary hold at most MaxText characters
MaxText == 5
\* the summary budget: 160 in events_detail.py:18, scaled down so that texts
\* of MaxText characters have paragraphs below, at and above it
SUMMARY_LEN == 3
\* texts given to _find_first_number_near are built from at most MaxPieces
\* fragments
MaxPieces == 3
\* manifests hold at most MaxNodes nodes
MaxNodes == 3
\* the manifest items looked at per filing: 6 in events_detail.py:16, scaled
\* down so that a manifest of MaxNodes nodes has more items than that
MAX_DOCS_PER_EVENT == 2
\* the reach of a keyword's window to either side: 80 in
\* events_detail.py:56-57, scaled down so that a text of MaxPieces fragments
\* has numbers inside, across and outside the window
NEAR_CHARS == 10

(***************************************************************************)
(* Program constants (events.py:14-23)                                     *)
(***************************************************************************)
PAGE_COUNT == 100
WINDOW_DAYS == 90
\* the days of one year of the range (events.py:142)
YEAR_DAYS == 365
\* the size cap of a fetched blob, in bytes (events_detail.py:17)
TEXT_BYTES_LIMIT == 2000000
None == "None"

OUT_COLUMNS ==
    <<"rcp_no", "corp_code", "event_date", "event_type", "sub_type",
      "amount", "counterparty", "summary", "report_nm", "rcept_dt">>

(***************************************************************************)
(* Strings                                                                 *)
(***************************************************************************)
Min(a, b) == IF a <= b THEN a ELSE b
Max(a, b) == IF a >= b THEN a ELSE b

\* Python's `kw in name` for strings
Contains(kw, name) ==
    \E k \in 0..(Len(name) - Len(kw)) :
        \A m \in 1..Len(kw) : name[k + m] = kw[m]

RECURSIVE LStrip(_)
LStrip(s) == IF s # <<>> /\ Head(s) = " " THEN LStrip(Tail(s)) ELSE s

RECURSIVE RStrip(_)
RStrip(s) ==
    IF s # <<>> /\ s[Len(s)] = " " THEN RStrip(SubSeq(s, 1, Len(s) - 1)) ELSE s

\* str.strip()
Strip(s) == RStrip(LStrip(s))

\* a value that is not a str (isinstance(report_nm, str) is False)
NonStr == <<"<non-str>">>
isinstance_str(x) == x # NonStr

(***************************************************************************)
(* Event classifier                                                        *)
(***************************************************************************)
Rule(kw, etype, sub) == [kw |-> kw, etype |-> etype, sub |-> sub]

EVENT_RULES ==
    <<Rule(<<"bu", "do", "bal", "saeng">>, "DEFAULT", None),
      Rule(<<"eo", "eum", "bu", "do">>, "DEFAULT", "BILL"),
      Rule(<<"yeong", "eop", "jeong", "ji">>, "OPS_SUSPEND", None),
      Rule(<<"hoe", "saeng", "jeol", "cha">>, "REHAB", None),
      Rule(<<"beop", "jeong", "gwan", "ri">>, "REHAB", "COURT"),
      Rule(<<"hae", "san", "sa", "yu">>, "LIQUIDATION", None),
      Rule(<<"cheong", "san">>, "LIQUIDATION", "WINDING_UP"),
      Rule(<<"chae", "gwon", "eun", "haeng", " ", "gwan", "ri">>, "BANK_GROUP", None),
      Rule(<<"so", "song", "ui", " ", "je", "gi">>, "LITIGATION", "FILED"),
      Rule(<<"so", "song", "ui", " ", "pan", "gyeol">>, "LITIGATION", "JUDGMENT"),
      Rule(<<"hap", "byeong">>, "MNA", "MERGER"),
      Rule(<<"bun", "hal", "hap", "byeong">>, "MNA", "MERGER_SPLIT"),
      Rule(<<"bun", "hal">>, "MNA", "SPLIT"),
      Rule(<<"ju", "sik", "gyo", "hwan">>, "MNA", "STOCK_SWAP"),
      Rule(<<"ju", "sik", "i", "jeon">>, "MNA", "STOCK_TRANSFER"),
      Rule(<<"yeong", "eop", "yang", "su">>, "BIZ_ACQ", "ACQ"),
      Rule(<<"yeong", "eop", "yang", "do">>, "BIZ_DISP", "DISP"),
      Rule(<<"ja", "san", "yang", "su">>, "ASSET_ACQ", "ACQ"),
      Rule(<<"ja", "san", "yang", "do">>, "ASSET_DISP", "DISP"),
      Rule(<<"yu", "hyeong", "ja", "san", " ", "yang", "su">>, "ASSET_ACQ", "PPE"),
      Rule(<<"yu", "hyeong", "ja", "san", " ", "yang", "do">>, "ASSET_DISP", "PPE"),
      Rule(<<"ta", "beop", "in", " ", "ju", "sik", " ", "mich", " ", "chul", "ja",
             "jeung", "gwon", " ", "yang", "su">>, "EQUITY_ACQ", "ACQ"),
      Rule(<<"ta", "beop", "in", " ", "ju", "sik", " ", "mich", " ", "chul", "ja",
             "jeung", "gwon", " ", "yang", "do">>, "EQUITY_DISP", "DISP")>>

\* the catch-all phrase of events.py:66
MAJOR_PHRASE == <<"ju", "yo", "sa", "hang", "bo", "go", "seo">>

\* the loop of events.py:62-68 from rule i on
RECURSIVE ScanRules(_, _)
ScanRules(name, i) ==
    IF i > Len(EVENT_RULES)
    THEN IF Contains(MAJOR_PHRASE, name) THEN <<"MAJOR", None>> ELSE <<None, None>>
    ELSE IF Contains(EVENT_RULES[i].kw, name)
         THEN <<EVENT_RULES[i].etype, EVENT_RULES[i].sub>>
         ELSE ScanRules(name, i + 1)

\* the same loop run from the last rule to the first
RECURSIVE ScanRulesBackwards(_, _)
ScanRulesBackwards(name, i) ==
    IF i < 1
    THEN IF Contains(MAJOR_PHRASE, name) THEN <<"MAJOR", None>> ELSE <<None, None>>
    ELSE IF Contains(EVENT_RULES[i].kw, name)
         THEN <<EVENT_RULES[i].etype, EVENT_RULES[i].sub>>
         ELSE ScanRulesBackwards(name, i - 1)

classify_last_rule(nm) ==
    IF ~isinstance_str(nm) THEN <<None, None>>
    ELSE ScanRulesBackwards(Strip(nm), Len(EVENT_RULES))

_classify_event(nm) ==
    IF ~isinstance_str(nm) THEN <<None, None>>
    ELSE ScanRules(Strip(nm), 1)

(***************************************************************************)
(* Date windows                                                            *)
(***************************************************************************)
\* events.py:87 with the window one day too long
chunk_end_off_by_one(c, e, step) == Min(c + step, e)

\* events.py:87: the last day of the window that starts at c
chunk_end(c, e, step) == Min(c + step - 1, e)

\* the list of windows the generator yields
RECURSIVE _daterange_chunks(_, _, _)
_daterange_chunks(b, e, step) ==
    IF b <= e
    THEN <<(<<b, chunk_end(b, e, step)>>)>>
         \o _daterange_chunks(chunk_end(b, e, step) + 1, e, step)
    ELSE <<>>

(***************************************************************************)
(* Tables, rows and the checkpoint store                                   *)
(***************************************************************************)
\* what is at out_path: nothing, or a table with its columns and rows
NoFile == [exists |-> FALSE, columns |-> <<>>, rows |-> <<>>]
Table(columns, rs) == [exists |-> TRUE, columns |-> columns, rows |-> rs]

\* the subset of drop_duplicates (events.py:216)
Key(r) == <<r.rcp_no, r.corp_code>>
Keys(rs) == {Key(rs[k]) : k \in 1..Len(rs)}
NoDupKeys(rs) == \A a, b \in 1..Len(rs) : Key(rs[a]) = Key(rs[b]) => a = b

\* DataFrame.drop_duplicates(subset=[rcp_no, corp_code], keep="last"): a row
\* stays when no later row has its key; the order of the rows is kept
RECURSIVE drop_duplicates_last(_)
drop_duplicates_last(rs) ==
    IF rs = <<>> THEN <<>>
    ELSE IF \E k \in 2..Len(rs) : Key(rs[k]) = Key(rs[1])
         THEN drop_duplicates_last(Tail(rs))
         ELSE <<rs[1]>> \o drop_duplicates_last(Tail(rs))

\* the columns of pd.concat([old, df]): those of old, then the new ones of df
concat_columns(a, b) ==
    a \o SelectSeq(b, LAMBDA c : \A k \in 1..Len(a) : a[k] # c)

\* events.py:215-216 without the drop_duplicates
merge_keep_all(old_rows, new_rows) == old_rows \o new_rows

\* events.py:215-216: old rows, then the new ones, the last row of a key kept
merge_rows(old_rows, new_rows) == drop_duplicates_last(old_rows \o new_rows)

\* _write_checkpoint that merges into the table it finds whatever the mode
write_checkpoint_merge(rs, f, mode) ==
    IF rs = <<>>
    THEN IF ~f.exists THEN Table(OUT_COLUMNS, <<>>) ELSE f
    ELSE IF ~f.exists
         THEN Table(OUT_COLUMNS, rs)
         ELSE Table(concat_columns(f.columns, OUT_COLUMNS),
                    merge_rows(f.rows, rs))

\* _write_checkpoint that always appends to the table it finds
write_checkpoint_append(rs, f, mode) ==
    Table(OUT_COLUMNS, f.rows \o rs)

\* _write_checkpoint(rows, out_path, mode): the table at out_path afterwards,
\* given the one, f, found there
_write_checkpoint(rs, f, mode) ==
    IF rs = <<>>
    THEN IF ~f.exists THEN Table(OUT_COLUMNS, <<>>) ELSE f
    ELSE IF mode = "wb" \/ ~f.exists
         THEN Table(OUT_COLUMNS, rs)
         ELSE Table(concat_columns(f.columns, OUT_COLUMNS),
                    merge_rows(f.rows, rs))

(***************************************************************************)
(* The list endpoint                                                       *)
(***************************************************************************)
\* report titles of filings: a merger decision, the catch-all phrase alone,
\* an annual report (no keyword)
TITLE_MERGER == <<"hoe", "sa", "hap", "byeong", "gyeol", "jeong">>
TITLE_MAJOR == MAJOR_PHRASE
TITLE_ANNUAL == <<"sa", "eop", "bo", "go", "seo">>

\* the filings the endpoint may list for a company: the second has no
\* receipt date, the third no keyword in its title
Filings ==
    { [rcept_no |-> "R1", rcept_dt |-> "20240105", report_nm |-> TITLE_MERGER],
      [rcept_no |-> "R2", rcept_dt |-> "", report_nm |-> TITLE_MAJOR],
      [rcept_no |-> "R3", rcept_dt |-> "20240110", report_nm |-> TITLE_ANNUAL] }

\* one item of a response's list, for the company asked about
Item(f, corp_code) ==
    [rcept_no |-> f.rcept_no, corp_code |-> corp_code, corp_name |-> corp_code,
     rcept_dt |-> f.rcept_dt, report_nm |-> f.report_nm]

\* total_count values: one page, and one row more than k - 1 full pages
TotalCounts ==
    {PAGE_COUNT} \cup {PAGE_COUNT * (k - 1) + 1 : k \in 2..MaxPages}

\* what client.get("list", ...) does: it raises, or returns a JSON object
\* (has_total: whether the object has a total_count)
Raised == [raised |-> TRUE, status |-> "", list |-> <<>>,
           has_total |-> FALSE, total_count |-> 0]
Json(status, list, has_total, total_count) ==
    [raised |-> FALSE, status |-> status, list |-> list,
     has_total |-> has_total, total_count |-> total_count]

\* the value of j while no call of _fetch_list_for_company is in progress
NoResponse == [raised |-> FALSE, status |-> "none", list |-> <<>>,
               has_total |-> FALSE, total_count |-> 0]

\* the filing that is listed with every total_count, without one, and under
\* a status that is not accepted; the others are listed as a single page
FirstFiling == CHOOSE f \in Filings : f.rcept_no = "R1"

Responses(corp_code) ==
    {Raised, Json("013", <<>>, FALSE, 0),
     Json("020", <<Item(FirstFiling, corp_code)>>, TRUE, PAGE_COUNT + 1),
     Json("000", <<Item(FirstFiling, corp_code)>>, FALSE, 0)}
    \cup {Json("000", <<Item(FirstFiling, corp_code)>>, TRUE, t) :
            t \in TotalCounts}
    \cup {Json("000", <<Item(f, corp_code)>>, TRUE, PAGE_COUNT) : f \in Filings}

\* math.ceil(a / b) for a >= 0, b > 0
ceil_div(a, b) == (a + b - 1) \div b

\* a / b rounded down
floor_div(a, b) == a \div b

\* events.py:122: total_count of a response, len(lst) when it has none
total_count_of(resp) ==
    IF resp.has_total THEN resp.total_count ELSE Len(resp.list)

\* events.py:123 rounding down
max_page_floor(resp, p) ==
    IF total_count_of(resp) # 0
    THEN floor_div(total_count_of(resp), PAGE_COUNT) ELSE p

\* events.py:123
max_page_of(resp, p) ==
    IF total_count_of(resp) # 0
    THEN ceil_div(total_count_of(resp), PAGE_COUNT) ELSE p

\* events.py:106-111 and 124: the loop of _fetch_list_for_company ends after
\* this response to the request for page p
fetch_breaks(resp, p) ==
    \/ resp.status \notin {"000", "013"}
    \/ resp.list = <<>>
    \/ p >= max_page_of(resp, p)

\* events.py:113-120 with the stubs appended before the status is looked at
stubs_of_any_status(resp) ==
    [k \in 1..Len(resp.list) |->
        [rcept_no |-> resp.list[k].rcept_no,
         corp_code |-> resp.list[k].corp_code,
         corp_name |-> resp.list[k].corp_name,
         rcept_dt |-> resp.list[k].rcept_dt,
         report_nm |-> resp.list[k].report_nm]]

\* events.py:113-120: the stubs appended for a response
stubs_of(resp) ==
    IF resp.status \notin {"000", "013"} THEN <<>>
    ELSE [k \in 1..Len(resp.list) |->
            [rcept_no |-> resp.list[k].rcept_no,
             corp_code |-> resp.list[k].corp_code,
             corp_name |-> resp.list[k].corp_name,
             rcept_dt |-> resp.list[k].rcept_dt,
             report_nm |-> resp.list[k].report_nm]]

(***************************************************************************)
(* backfill_events                                                         *)
(***************************************************************************)
\* events.py:171-173 with the receipt date passed on when it is not a date
event_date_unchecked(rcept_dt) ==
    CASE rcept_dt = "20240105" -> "2024-01-05"
      [] rcept_dt = "20240110" -> "2024-01-10"
      [] OTHER -> rcept_dt

\* events.py:171-173: strptime(rcept_dt, "%Y%m%d").date().isoformat(), None
\* when strptime raises
event_date_of(rcept_dt) ==
    CASE rcept_dt = "20240105" -> "2024-01-05"
      [] rcept_dt = "20240110" -> "2024-01-10"
      [] OTHER -> None

\* events.py:175-186
event_row(it) ==
    LET cls == _classify_event(it.report_nm)
    IN  [rcp_no |-> it.rcept_no,
         corp_code |-> it.corp_code,
         event_date |-> event_date_of(it.rcept_dt),
         event_type |-> cls[1],
         sub_type |-> cls[2],
         amount |-> None, counterparty |-> None, summary |-> None,
         report_nm |-> it.report_nm,
         rcept_dt |-> it.rcept_dt]

\* events.py:162-186 without the filter of line 165
RECURSIVE rows_of_all(_)
rows_of_all(l) ==
    IF l = <<>> THEN <<>> ELSE <<event_row(Head(l))>> \o rows_of_all(Tail(l))

\* events.py:162-186: the rows appended to all_rows for the stubs of a window
RECURSIVE rows_of(_)
rows_of(l) ==
    IF l = <<>> THEN <<>>
    ELSE IF event_row(Head(l)).event_type = None
         THEN rows_of(Tail(l))
         ELSE <<event_row(Head(l))>> \o rows_of(Tail(l))

\* the windows of the run (events.py:152)
Windows == _daterange_chunks(start_date, end_date, WINDOW_DAYS)

\* events.py:189: the condition of the interim checkpoint, on len(all_rows)
checkpoint_due(n) == n # 0 /\ n % CHECKPOINT_EVERY = 0

\* rows already persisted by an earlier run and its enrichment
OLD_ROW ==
    [rcp_no |-> "R0", corp_code |-> "A", event_date |-> "2023-12-01",
     event_type |-> "DEFAULT", sub_type |-> None,
     amount |-> None, counterparty |-> None, summary |-> None,
     report_nm |-> <<"bu", "do", "bal", "saeng">>, rcept_dt |-> "20231201"]
ENRICHED_ROW ==
    [rcp_no |-> "R1", corp_code |-> "A", event_date |-> "2024-01-05",
     event_type |-> "MNA", sub_type |-> "MERGER",
     amount |-> "1,234,567", counterparty |-> None, summary |-> None,
     report_nm |-> TITLE_MERGER, rcept_dt |-> "20240105"]

InitialFiles ==
    {NoFile, Table(OUT_COLUMNS, <<>>), Table(OUT_COLUMNS, <<OLD_ROW>>),
     Table(OUT_COLUMNS, <<OLD_ROW, ENRICHED_ROW>>)}

\* data/corp_master.parquet: absent, or a table whose corp_code column is given
NoDirectory == [exists |-> FALSE, corp_code |-> <<>>]
Directory(codes) == [exists |-> TRUE, corp_code |-> codes]

\* the list endpoint is not scripted: it may answer anything
NoScript == [scripted |-> FALSE, corp_code |-> "", day |-> 0]

\* the list endpoint holds one filing, the merger decision, received from
\* company corp_code on the given day, and nothing else
OneFiling(corp_code, day) ==
    [scripted |-> TRUE, corp_code |-> corp_code, day |-> day]

\* what such an endpoint answers to a request <<corp_code, bgn_de, end_de,
\* page_no, page_count>>: the filing on page 1 when it is of the company and
\* in the window, with total_count 1 or without total_count; else status 013
\* and no list
ScriptedResponses(script, req) ==
    IF /\ req[1] = script.corp_code
       /\ req[2] <= script.day /\ script.day <= req[3]
       /\ req[4] = 1
    THEN {Json("000", <<Item(FirstFiling, req[1])>>, TRUE, 1),
          Json("000", <<Item(FirstFiling, req[1])>>, FALSE, 0)}
    ELSE {Json("013", <<>>, FALSE, 0)}

\* no checkpoint written yet
NoCkpt == [mode |-> "none", old |-> NoFile, n |-> 0]

RunIdle ==
    /\ corp_master = NoDirectory /\ file = NoFile
    /\ pc = "idle" /\ start_date = 0 /\ end_date = 0 /\ dim = <<>>
    /\ idx = 0 /\ win = 0 /\ page_no = 0 /\ rows = <<>> /\ j = NoResponse
    /\ lst = <<>> /\ all_rows = <<>>
    /\ totals = <<>> /\ ckpt = NoCkpt /\ run = 0 /\ log = <<>> /\ req_no = 0
    /\ file_run1 = NoFile
    /\ pages = <<>> /\ skipped = 0 /\ sleeps = 0 /\ filed = NoScript
    /\ queried = <<>>

\* the state at the call of backfill_events
RunInit(directories, keep_log) ==
    /\ corp_master \in directories
    /\ file \in InitialFiles
    /\ pc = "start"
    /\ end_date = RunSpanDays
    /\ start_date = end_date - RunSpanDays
    /\ dim = <<>> /\ idx = 0 /\ win = 0 /\ page_no = 0 /\ rows = <<>>
    /\ j = NoResponse /\ lst = <<>> /\ all_rows = <<>>
    /\ totals = <<>> /\ ckpt = NoCkpt
    /\ run = IF keep_log THEN 1 ELSE 0
    /\ log = <<>> /\ req_no = 0 /\ file_run1 = NoFile
    /\ pages = <<>> /\ skipped = 0 /\ sleeps = 0 /\ filed = NoScript
    /\ queried = <<>>

\* the loops of events.py:149 and 152 move on from company i, window w:
\* the position of the next window, or the final write
GoToNext(i, w) ==
    IF w < Len(Windows)
    THEN /\ pc' = "fetch" /\ idx' = i /\ win' = w + 1
    ELSE IF i < Len(dim)
         THEN /\ pc' = "fetch" /\ idx' = i + 1 /\ win' = 1
         ELSE /\ pc' = "final" /\ idx' = i /\ win' = w

\* the except of events.py:157-159 written with break: the rest of the
\* company's windows is abandoned too
on_list_fail_break(i, w) ==
    IF i < Len(dim)
    THEN /\ pc' = "fetch" /\ idx' = i + 1 /\ win' = 1
    ELSE /\ pc' = "final" /\ idx' = i /\ win' = w

\* the except of events.py:157-159 written with pass: the run falls through
\* to the classification of lst
on_list_fail_pass(i, w) ==
    pc' = "classify" /\ idx' = i /\ win' = w

\* events.py:157-159: the exception is printed and the loop over the windows
\* continues
on_list_fail(i, w) == GoToNext(i, w)

\* _load_corp_master that returns an empty frame for a missing file
load_corp_master_unchecked(cm) ==
    [raised |-> FALSE, corp_code |-> cm.corp_code]

\* events.py:71-80: FileNotFoundError when the file is missing, else the
\* frame read from it
_load_corp_master(cm) ==
    [raised |-> ~cm.exists, corp_code |-> cm.corp_code]

\* events.py:137-148: the directory is loaded; FileNotFoundError ends the run
LoadCorpMaster ==
    /\ pc = "start"
    /\ IF _load_corp_master(corp_master).raised
       THEN /\ pc' = "aborted"
            /\ UNCHANGED <<dim, idx, win, page_no, rows, totals>>
       ELSE /\ dim' = _load_corp_master(corp_master).corp_code
            /\ IF Len(dim') = 0 \/ Len(Windows) = 0
               THEN pc' = "final" /\ idx' = 0 /\ win' = 0
               ELSE pc' = "fetch" /\ idx' = 1 /\ win' = 1
            /\ page_no' = 1 /\ rows' = <<>> /\ totals' = <<>>
    /\ all_rows' = <<>>
    /\ UNCHANGED <<start_date, end_date, j, lst, envVars, ckpt, run, log,
                   req_no, file_run1, pages, skipped, sleeps, filed, queried>>

\* the request _fetch_list_for_company is about to make
Request ==
    <<dim[idx], Windows[win][1], Windows[win][2], page_no, PAGE_COUNT>>

\* the responses the next request can get: any in a first run, the recorded
\* one when the run is repeated against the same responses
NextResponses ==
    IF run = 2
    THEN IF req_no < Len(log) /\ log[req_no + 1].req = Request
         THEN {log[req_no + 1].resp} ELSE {}
    ELSE IF filed.scripted
         THEN ScriptedResponses(filed, Request)
         ELSE Responses(dim[idx])

\* events.py:97-128 and 155-159: one request of _fetch_list_for_company and
\* what the loop does with the response
FetchPage ==
    /\ pc = "fetch"
    /\ \E resp \in NextResponses :
        /\ req_no' = req_no + 1
        /\ queried' = IF page_no = 1
                      THEN Append(queried, <<dim[idx], Windows[win]>>)
                      ELSE queried
        /\ log' = IF run = 1 THEN Append(log, [req |-> Request, resp |-> resp])
                  ELSE log
        /\ IF resp.raised
           THEN \* except of events.py:157: the window is skipped
                /\ j' = NoResponse
                /\ on_list_fail(idx, win)
                /\ page_no' = 1 /\ rows' = <<>> /\ totals' = <<>>
                /\ pages' = <<>>
                /\ skipped' = skipped + 1
                \* DartClient.get sleeps before it raises for an HTTP error
                \* status, not when the transport raises (dart_client.py:17-21)
                /\ sleeps' \in {0, 1}
                /\ UNCHANGED lst
           ELSE IF fetch_breaks(resp, page_no)
           THEN /\ j' = resp
                /\ pc' = "classify"
                /\ rows' = rows \o stubs_of(resp)
                /\ lst' = rows \o stubs_of(resp)
                /\ totals' = IF stubs_of(resp) # <<>>
                             THEN Append(totals, total_count_of(resp))
                             ELSE totals
                /\ pages' = Append(pages, resp)
                /\ sleeps' = 0
                /\ UNCHANGED <<idx, win, page_no, skipped>>
           ELSE /\ j' = resp
                /\ rows' = rows \o stubs_of(resp)
                /\ page_no' = page_no + 1
                /\ totals' = Append(totals, total_count_of(resp))
                /\ pages' = Append(pages, resp)
                \* time.sleep(SLEEP_SEC) of events.py:127
                /\ sleeps' = 1
                /\ UNCHANGED <<pc, idx, win, lst, skipped>>
    /\ UNCHANGED <<start_date, end_date, dim, all_rows, envVars, ckpt, run,
                   file_run1, filed>>

\* events.py:162-190: the stubs of the window are classified and buffered,
\* then the interim checkpoint is written when it is due
ClassifyWindow ==
    /\ pc = "classify"
    /\ all_rows' = all_rows \o rows_of(lst)
    /\ IF checkpoint_due(Len(all_rows'))
       THEN /\ file' = _write_checkpoint(all_rows', file, "ab")
            /\ ckpt' = [mode |-> "ab", old |-> file, n |-> Len(all_rows')]
       ELSE UNCHANGED <<file, ckpt>>
    /\ GoToNext(idx, win)
    /\ page_no' = 1 /\ rows' = <<>> /\ totals' = <<>> /\ j' = NoResponse
    /\ pages' = <<>>
    /\ UNCHANGED <<start_date, end_date, dim, lst, corp_master, run, log,
                   req_no, file_run1, skipped, sleeps, filed, queried>>

\* events.py:196: the final write
FinalWrite ==
    /\ pc = "final"
    /\ file' = _write_checkpoint(all_rows, file, "wb")
    /\ ckpt' = [mode |-> "wb", old |-> file, n |-> Len(all_rows)]
    /\ pc' = "done"
    /\ UNCHANGED <<start_date, end_date, dim, idx, win, page_no, rows, j, lst,
                   all_rows, corp_master, totals, run, log, req_no, file_run1,
                   pages, skipped, sleeps, filed, queried>>

\* backfill_events is called again: same directory, same range, the list
\* endpoint answering as before
RunAgain ==
    /\ pc = "done" /\ run = 1
    /\ run' = 2
    /\ file_run1' = file
    /\ pc' = "start"
    /\ req_no' = 0
    /\ dim' = <<>> /\ idx' = 0 /\ win' = 0 /\ page_no' = 0 /\ rows' = <<>>
    /\ j' = NoResponse /\ lst' = <<>> /\ all_rows' = <<>>
    /\ totals' = <<>> /\ ckpt' = NoCkpt
    /\ pages' = <<>> /\ skipped' = 0 /\ sleeps' = 0 /\ queried' = <<>>
    /\ UNCHANGED <<start_date, end_date, envVars, log, filed>>

(***************************************************************************)
(* _write_checkpoint on its own: a compaction, then a compaction of the    *)
(* table it wrote against itself                                           *)
(***************************************************************************)
\* rows that tables and buffers are made of
RowPool ==
    {OLD_ROW, ENRICHED_ROW, event_row(Item(FirstFiling, "A")),
     event_row(Item(FirstFiling, "B"))}

RECURSIVE RowSeqs(_)
RowSeqs(n) ==
    IF n = 0 THEN {<<>>}
    ELSE RowSeqs(n - 1) \cup {Append(s, r) : s \in RowSeqs(n - 1), r \in RowPool}

CkIdle == ck_rows = <<>> /\ ck_mode = "wb" /\ ck_old = NoFile /\ ck_pc = "idle"

CkInit ==
    /\ ck_rows \in RowSeqs(MaxTable)
    /\ ck_mode \in {"ab", "wb"}
    /\ ck_old = NoFile
    /\ ck_pc = "first"
    /\ file \in {NoFile} \cup {Table(OUT_COLUMNS, s) : s \in RowSeqs(MaxTable)}

\* _write_checkpoint(ck_rows, out_path, ck_mode)
Compact ==
    /\ ck_pc = "first"
    /\ file' = _write_checkpoint(ck_rows, file, ck_mode)
    /\ ck_pc' = "second"
    /\ UNCHANGED <<ck_rows, ck_mode, ck_old>>

\* the table written is read back and compacted against itself
CompactAgain ==
    /\ ck_pc = "second"
    /\ ck_old' = file
    /\ ck_rows' = file.rows
    /\ ck_mode' \in {"ab", "wb"}
    /\ file' = _write_checkpoint(file.rows, file, ck_mode')
    /\ ck_pc' = "done"

(***************************************************************************)
(* _classify_event on its own: one call on a title                         *)
(***************************************************************************)
Fragments ==
    {EVENT_RULES[i].kw : i \in 1..Len(EVENT_RULES)}
        \cup {MAJOR_PHRASE, <<" ">>, <<"gong", "si">>}

RECURSIVE TitlesOf(_)
TitlesOf(n) ==
    IF n = 0 THEN {<<>>}
    ELSE TitlesOf(n - 1) \cup {t \o f : t \in TitlesOf(n - 1), f \in Fragments}

TitleInputs == TitlesOf(MaxParts) \cup {NonStr}

ClsIdle == report_nm = <<>> /\ cls_result = <<None, None>> /\ cls_pc = "idle"

ClsInit ==
    /\ report_nm \in TitleInputs
    /\ cls_result = <<None, None>>
    /\ cls_pc = "called"

ClassifyEvent ==
    /\ cls_pc = "called"
    /\ cls_result' = _classify_event(report_nm)
    /\ cls_pc' = "returned"
    /\ UNCHANGED report_nm

(***************************************************************************)
(* _daterange_chunks on its own: the generator, one window per step        *)
(***************************************************************************)
GenIdle ==
    /\ bgn = 0 /\ end = 0 /\ step_days = 1
    /\ cur = 0 /\ chunks = <<>> /\ gen_pc = "idle"

GenInit ==
    /\ \/ bgn \in 0..MaxDay /\ end \in 0..MaxDay /\ step_days \in 1..MaxStep
       \/ bgn = 0 /\ end = 199 /\ step_days = WINDOW_DAYS
    /\ cur = bgn
    /\ chunks = <<>>
    /\ gen_pc = "loop"

\* events.py:86-89: one turn of the while loop
YieldChunk ==
    /\ gen_pc = "loop"
    /\ cur <= end
    /\ chunks' = Append(chunks, <<cur, chunk_end(cur, end, step_days)>>)
    /\ cur' = chunk_end(cur, end, step_days) + 1
    /\ UNCHANGED <<bgn, end, step_days, gen_pc>>

\* events.py:86: the loop condition fails
ChunksExhausted ==
    /\ gen_pc = "loop"
    /\ cur > end
    /\ gen_pc' = "done"
    /\ UNCHANGED <<bgn, end, step_days, cur, chunks>>

(***************************************************************************)
(* DartClient.get on its own (dart_client.py:12-21): one call, one HTTP    *)
(* request per step                                                        *)
(***************************************************************************)
\* what requests.get does: it raises (a timeout, a connection error), or
\* returns a response with a status code and a body that is JSON or not
Timeout == [raised |-> TRUE, status_code |-> 0, json |-> FALSE]
Response(code, json) == [raised |-> FALSE, status_code |-> code, json |-> json]
Unbound == [raised |-> FALSE, status_code |-> -1, json |-> FALSE]

HttpOutcomes ==
    {Timeout, Response(200, TRUE), Response(200, FALSE), Response(204, FALSE),
     Response(404, TRUE), Response(503, FALSE)}

GetIdle ==
    /\ max_retries = 0 /\ attempt = 0 /\ last_r = Unbound /\ waits = <<>>
    /\ exchanges = <<>> /\ get_pc = "idle" /\ get_ret = None

GetInit ==
    /\ max_retries \in 0..MaxRetries
    /\ attempt = 0 /\ last_r = Unbound /\ waits = <<>> /\ exchanges = <<>>
    /\ get_pc = "loop" /\ get_ret = None

\* dart_client.py:20 with a constant delay
retry_delay_constant(a) == 1

\* dart_client.py:20: the sleep after attempt a (counted from 0), in units
\* of sleep_sec
retry_delay(a) == a + 1

\* Response.raise_for_status(): HTTPError for a 4xx or 5xx status code
raises_for_status(resp) == resp.status_code >= 400 /\ resp.status_code < 600

\* dart_client.py:16-20: one turn of the for loop
GetAttempt ==
    /\ get_pc = "loop"
    /\ attempt < max_retries
    /\ \E resp \in HttpOutcomes :
        /\ exchanges' = Append(exchanges, resp)
        /\ IF resp.raised
           THEN \* requests.get raises: nothing in get catches it
                /\ get_pc' = "raised" /\ get_ret' = "RequestException"
                /\ UNCHANGED <<attempt, last_r, waits>>
           ELSE IF resp.status_code = 200
           THEN \* return r.json(), which raises when the body is not JSON
                /\ last_r' = resp
                /\ IF resp.json
                   THEN get_pc' = "returned" /\ get_ret' = "json"
                   ELSE get_pc' = "raised" /\ get_ret' = "JSONDecodeError"
                /\ UNCHANGED <<attempt, waits>>
           ELSE /\ last_r' = resp
                /\ waits' = Append(waits, retry_delay(attempt))
                /\ attempt' = attempt + 1
                /\ UNCHANGED <<get_pc, get_ret>>
    /\ UNCHANGED max_retries

\* dart_client.py:21: the loop is exhausted; r.raise_for_status(), then the
\* function ends without a return statement
GetExhausted ==
    /\ get_pc = "loop"
    /\ attempt >= max_retries
    /\ IF last_r = Unbound
       THEN get_pc' = "raised" /\ get_ret' = "UnboundLocalError"
       ELSE IF raises_for_status(last_r)
       THEN get_pc' = "raised" /\ get_ret' = "HTTPError"
       ELSE get_pc' = "returned" /\ get_ret' = None
    /\ UNCHANGED <<max_retries, attempt, last_r, waits, exchanges>>

(***************************************************************************)
(* enrich_events_detail (events_detail.py:136-232)                         *)
(***************************************************************************)
\* rows of the table at events_in: as phase 1 wrote it, with an amount from
\* an earlier enrichment, with an empty amount and a counterparty, and with
\* no receipt number
FRESH_ROW == event_row(Item(FirstFiling, "A"))
PARTIAL_ROW ==
    [rcp_no |-> "R2", corp_code |-> "A", event_date |-> None,
     event_type |-> "MAJOR", sub_type |-> None,
     amount |-> "", counterparty |-> "X Corp", summary |-> None,
     report_nm |-> TITLE_MAJOR, rcept_dt |-> ""]
UNKEYED_ROW ==
    [rcp_no |-> None, corp_code |-> "B", event_date |-> "2024-01-05",
     event_type |-> "MNA", sub_type |-> "MERGER",
     amount |-> None, counterparty |-> None, summary |-> "old summary",
     report_nm |-> TITLE_MERGER, rcept_dt |-> "20240105"]

EventPool == {FRESH_ROW, ENRICHED_ROW, PARTIAL_ROW, UNKEYED_ROW}

RECURSIVE EventSeqs(_)
EventSeqs(n) ==
    IF n = 0 THEN {<<>>}
    ELSE EventSeqs(n - 1)
         \cup {Append(t, e) : t \in EventSeqs(n - 1), e \in EventPool}

\* what try_enrich_one returns (events_detail.py:160-207) with the DartClient
\* of dart_client.py, which has neither get_document_xml nor get_binary: each
\* call raises AttributeError, which is caught, and no text is collected
Extraction(a, c, s) == [amount |-> a, counterparty |-> c, summary |-> s]
NothingExtracted == Extraction(None, None, None)

\* what try_enrich_one returns with a client that has the two methods: each
\* of the three values found or not; a counterparty may be the empty string
Extractions ==
    {NothingExtracted,
     Extraction("9,999", None, None),
     Extraction(None, "", "found summary"),
     Extraction("9,999", "Y Corp", "found summary")}

EnIdle ==
    /\ events_in = NoFile /\ events_out = NoFile /\ en_pc = "idle"
    /\ df = <<>> /\ keys = <<>> /\ enriched = <<>>

EnInit ==
    /\ events_in \in {NoFile}
                     \cup {Table(OUT_COLUMNS, t) : t \in EventSeqs(MaxEvents)}
    /\ events_out = NoFile
    /\ en_pc = "start"
    /\ df = <<>> /\ keys = <<>> /\ enriched = <<>>

\* events_detail.py:158: df["rcp_no"].dropna().astype(str).unique(), in the
\* order of first appearance
RECURSIVE unique_keys(_, _)
unique_keys(d, seen) ==
    IF d = <<>> THEN <<>>
    ELSE IF Head(d).rcp_no = None \/ Head(d).rcp_no \in seen
         THEN unique_keys(Tail(d), seen)
         ELSE <<Head(d).rcp_no>>
              \o unique_keys(Tail(d), seen \cup {Head(d).rcp_no})

\* enriched.get(rcp, {}): the entry of the receipt number, {} when it has none
has_entry(e, rcp) == \E k \in 1..Len(e) : e[k].rcp = rcp
entry_of(e, rcp) == e[CHOOSE k \in 1..Len(e) : e[k].rcp = rcp].add
add_of(e, rcp) == IF has_entry(e, rcp) THEN entry_of(e, rcp) ELSE NothingExtracted

\* pd.notna(a0) and a0 not in ("", None)
is_populated(v) == v # None /\ v # ""

\* events_detail.py:224-226 preferring the extracted value
merge_field_overwrite(v0, found) == IF found # None THEN found ELSE v0

\* events_detail.py:224-226: one field of one row
merge_field(v0, found) == IF is_populated(v0) THEN v0 ELSE found

\* events_detail.py:217-227: one row; str(r["rcp_no"]) of a missing receipt
\* number is not a key of enriched
merge_row(row, e) ==
    LET add == IF row.rcp_no = None THEN NothingExtracted
               ELSE add_of(e, row.rcp_no)
    IN  [row EXCEPT !.amount = merge_field(row.amount, add.amount),
                    !.counterparty =
                        merge_field(row.counterparty, add.counterparty),
                    !.summary = merge_field(row.summary, add.summary)]

\* events_detail.py:216-227 looping over the receipt numbers instead of the
\* rows
out_rows_by_key(d, e) ==
    [k \in 1..Len(unique_keys(d, {})) |->
        merge_row(d[CHOOSE m \in 1..Len(d) :
                        d[m].rcp_no = unique_keys(d, {})[k]], e)]

\* events_detail.py:216-227: the rows written
out_rows(d, e) == [k \in 1..Len(d) |-> merge_row(d[k], e)]

\* events_detail.py:142-158: the table is read; a missing one raises, an empty
\* one is written as it is
EnrichStart ==
    /\ en_pc = "start"
    /\ IF ~events_in.exists
       THEN /\ en_pc' = "raised"
            /\ UNCHANGED <<events_out, df, keys>>
       ELSE IF events_in.rows = <<>>
       THEN /\ df' = events_in.rows
            /\ events_out' = events_in
            /\ en_pc' = "done"
            /\ UNCHANGED keys
       ELSE /\ df' = events_in.rows
            /\ keys' = unique_keys(events_in.rows, {})
            /\ en_pc' = "enrich"
            /\ UNCHANGED events_out
    /\ enriched' = <<>>
    /\ UNCHANGED events_in

\* events_detail.py:211-213: one turn of the loop over the receipt numbers
EnrichOne ==
    /\ en_pc = "enrich"
    /\ Len(enriched) < Len(keys)
    /\ \E x \in Extractions :
        enriched' = Append(enriched, [rcp |-> keys[Len(enriched) + 1], add |-> x])
    /\ UNCHANGED <<events_in, events_out, en_pc, df, keys>>

\* events_detail.py:215-231: the rows are merged and the table written
MergeAndWrite ==
    /\ en_pc = "enrich"
    /\ Len(enriched) = Len(keys)
    /\ events_out' = Table(events_in.columns, out_rows(df, enriched))
    /\ en_pc' = "done"
    /\ UNCHANGED <<events_in, df, keys, enriched>>

\* enrich_events_detail is called again on the table it wrote
EnrichAgain ==
    /\ en_pc = "done"
    /\ events_in' = events_out
    /\ events_out' = NoFile
    /\ en_pc' = "start"
    /\ df' = <<>> /\ keys' = <<>> /\ enriched' = <<>>

(***************************************************************************)
(* The text functions of phase 2 (events_detail.py:16-85)                  *)
(***************************************************************************)
NL == "\n"
\* None where a str is expected, among texts that are sequences of
\* characters
NoneStr == <<"None">>
\* the one character U+2026 that _take_summary appends
ELLIPSIS == "<ellipsis>"

\* text.split("\n")[0]
RECURSIVE first_line(_)
first_line(t) ==
    IF t = <<>> \/ Head(t) = NL THEN <<>>
    ELSE <<Head(t)>> \o first_line(Tail(t))

\* _take_summary without the split: the whole text is taken as the paragraph
take_summary_whole_text(t, max_len) ==
    IF t = <<>> THEN NoneStr
    ELSE IF Len(t) > max_len
         THEN Append(RStrip(SubSeq(t, 1, max_len)), ELLIPSIS)
         ELSE t

\* events_detail.py:43-50; para holds no newline, so that rstrip() removes
\* blanks only
_take_summary(t, max_len) ==
    IF t = <<>> THEN NoneStr
    ELSE LET para == first_line(t)
         IN IF Len(para) > max_len
            THEN Append(RStrip(SubSeq(para, 1, max_len)), ELLIPSIS)
            ELSE para

\* a keyword regex of AMOUNT_KEYS / COUNTERPARTY_KEYS is a sequence of
\* literal characters and optional blanks ("[ ]?")
Lit(c) == [ch |-> c, opt |-> FALSE]
OptBlank == [ch |-> " ", opt |-> TRUE]
Lits(cs) == [k \in 1..Len(cs) |-> Lit(cs[k])]

\* events_detail.py:19-23:
\* 취득금액, 양수도[ ]?금액, 거래[ ]?금액, 총[ ]?투자[ ]?금액, 자산[ ]?양수[ ]?금액,
\* 영업[ ]?양수[ ]?대가, 주식[ ]?취득[ ]?대금, 부도[ ]?금액, 손해배상[ ]?금액
AMOUNT_KEYS ==
    << Lits(<<"chwi", "deuk", "geum", "aek">>),
       Lits(<<"yang", "su", "do">>) \o <<OptBlank>> \o Lits(<<"geum", "aek">>),
       Lits(<<"geo", "rae">>) \o <<OptBlank>> \o Lits(<<"geum", "aek">>),
       <<Lit("chong"), OptBlank>> \o Lits(<<"tu", "ja">>) \o <<OptBlank>>
           \o Lits(<<"geum", "aek">>),
       Lits(<<"ja", "san">>) \o <<OptBlank>> \o Lits(<<"yang", "su">>)
           \o <<OptBlank>> \o Lits(<<"geum", "aek">>),
       Lits(<<"yeong", "eop">>) \o <<OptBlank>> \o Lits(<<"yang", "su">>)
           \o <<OptBlank>> \o Lits(<<"dae", "ga">>),
       Lits(<<"ju", "sik">>) \o <<OptBlank>> \o Lits(<<"chwi", "deuk">>)
           \o <<OptBlank>> \o Lits(<<"dae", "geum">>),
       Lits(<<"bu", "do">>) \o <<OptBlank>> \o Lits(<<"geum", "aek">>),
       Lits(<<"son", "hae", "bae", "sang">>) \o <<OptBlank>>
           \o Lits(<<"geum", "aek">>) >>

\* re.match of the keyword regex kr at position p of t (counted from 1): the
\* position after the match, or 0 when there is none; an optional blank is
\* taken when it is there (greedy) and given back when the rest fails
RECURSIVE match_key(_, _, _)
match_key(kr, t, p) ==
    IF kr = <<>> THEN p
    ELSE LET here == p <= Len(t) /\ t[p] = Head(kr).ch
             taken == IF here THEN match_key(Tail(kr), t, p + 1) ELSE 0
         IN IF Head(kr).opt /\ taken = 0
            THEN match_key(Tail(kr), t, p)
            ELSE taken

\* re.finditer(kr, text): the non-overlapping matches from left to right,
\* with Python's start() and end()
RECURSIVE finditer(_, _, _)
finditer(kr, t, p) ==
    IF p > Len(t) THEN <<>>
    ELSE LET e == match_key(kr, t, p)
         IN IF e # 0
            THEN <<[start |-> p - 1, end |-> e - 1]>> \o finditer(kr, t, e)
            ELSE finditer(kr, t, p + 1)

\* text[a:b] of Python
Slice(t, a, b) == SubSeq(t, Max(0, a) + 1, Min(Len(t), b))

Digits == {"0", "1", "2", "3", "4", "5", "6", "7", "8", "9"}
Spaces == {" ", NL}
IsDigit(w, p) == p <= Len(w) /\ w[p] \in Digits
IsChar(w, p, c) == p <= Len(w) /\ w[p] = c

\* the position after the run of at most n characters of the set cs that
\* starts at p
RECURSIVE run_end(_, _, _, _)
run_end(w, p, cs, n) ==
    IF n > 0 /\ p <= Len(w) /\ w[p] \in cs THEN run_end(w, p + 1, cs, n - 1)
    ELSE p

\* (?:,\d{3})* at p: the position after the last group
RECURSIVE groups_end(_, _)
groups_end(w, p) ==
    IF IsChar(w, p, ",") /\ run_end(w, p + 1, Digits, 3) = p + 4
    THEN groups_end(w, p + 4)
    ELSE p

\* the first alternative of NUM_PAT at p, [-]?\(?\d{1,3}(?:,\d{3})*(?:\.\d+)?\)?:
\* the position after the match, or 0
num_alt1(w, p) ==
    LET p1 == IF IsChar(w, p, "-") THEN p + 1 ELSE p
        p2 == IF IsChar(w, p1, "(") THEN p1 + 1 ELSE p1
        p3 == run_end(w, p2, Digits, 3)
        p4 == groups_end(w, p3)
        p5 == IF IsChar(w, p4, ".") /\ IsDigit(w, p4 + 1)
              THEN run_end(w, p4 + 1, Digits, Len(w))
              ELSE p4
        p6 == IF IsChar(w, p5, ")") THEN p5 + 1 ELSE p5
    IN IF IsDigit(w, p2) THEN p6 ELSE 0

\* the second and third alternatives, (\d+)\s*억 and \d+\s*원, with unit the
\* character 억 or 원
num_alt_unit(w, p, unit) ==
    LET p1 == run_end(w, p, Digits, Len(w))
        p2 == run_end(w, p1, Spaces, Len(w))
    IN IF IsDigit(w, p) /\ IsChar(w, p2, unit) THEN p2 + 1 ELSE 0

\* NUM_PAT (events_detail.py:29) at p: the alternatives in their order
num_match(w, p) ==
    IF num_alt1(w, p) # 0 THEN num_alt1(w, p)
    ELSE IF num_alt_unit(w, p, "eok") # 0 THEN num_alt_unit(w, p, "eok")
    ELSE num_alt_unit(w, p, "won")

\* re.search(NUM_PAT, window): group(0) of the leftmost match, or None
RECURSIVE search_num(_, _)
search_num(w, p) ==
    IF p > Len(w) THEN NoneStr
    ELSE IF num_match(w, p) # 0 THEN SubSeq(w, p, num_match(w, p) - 1)
    ELSE search_num(w, p + 1)

\* events_detail.py:56-58
window_near(t, m) == Slice(t, m.start - NEAR_CHARS, m.end + NEAR_CHARS)

\* events_detail.py:55-61: the loop over the matches of one keyword
RECURSIVE number_near_matches(_, _)
number_near_matches(t, ms) ==
    IF ms = <<>> THEN NoneStr
    ELSE LET nm == search_num(window_near(t, Head(ms)), 1)
         IN IF nm # NoneStr THEN nm ELSE number_near_matches(t, Tail(ms))

\* _find_first_number_near with the two loops exchanged: the matches of all
\* keywords are visited in text order
find_number_text_order(t, key_regexes) ==
    LET ms == {m \in UNION {{finditer(key_regexes[k], t, 1)[n] :
                                n \in 1..Len(finditer(key_regexes[k], t, 1))} :
                            k \in 1..Len(key_regexes)} :
                   search_num(window_near(t, m), 1) # NoneStr}
    IN IF ms = {} THEN NoneStr
       ELSE LET first == CHOOSE m \in ms : \A o \in ms : m.start <= o.start
            IN search_num(window_near(t, first), 1)

\* events_detail.py:52-62
RECURSIVE _find_first_number_near(_, _)
_find_first_number_near(t, key_regexes) ==
    IF key_regexes = <<>> THEN NoneStr
    ELSE LET nm == number_near_matches(t, finditer(Head(key_regexes), t, 1))
         IN IF nm # NoneStr THEN nm
            ELSE _find_first_number_near(t, Tail(key_regexes))

\* events_detail.py:24-27:
\* 거래상대방, 상대[ ]?회사, 상대[ ]?법인, 양수인, 양도인, 피인수[ ]?회사, 채권은행, 법원,
\* 소송[ ]?상대방, 관리[ ]?주체
COUNTERPARTY_KEYS ==
    << Lits(<<"geo", "rae", "sang", "dae", "bang">>),
       Lits(<<"sang", "dae">>) \o <<OptBlank>> \o Lits(<<"hoe", "sa">>),
       Lits(<<"sang", "dae">>) \o <<OptBlank>> \o Lits(<<"beop", "in">>),
       Lits(<<"yang", "su", "in">>),
       Lits(<<"yang", "do", "in">>),
       Lits(<<"pi", "in", "su">>) \o <<OptBlank>> \o Lits(<<"hoe", "sa">>),
       Lits(<<"chae", "gwon", "eun", "haeng">>),
       Lits(<<"beop", "won">>),
       Lits(<<"so", "song">>) \o <<OptBlank>> \o Lits(<<"sang", "dae", "bang">>),
       Lits(<<"gwan", "ri">>) \o <<OptBlank>> \o Lits(<<"ju", "che">>) >>

\* the characters of the two patterns of events_detail.py:71 and of the
\* split of events_detail.py:75: ":" and the full-width colon; the corner
\* brackets 『 and 「 and "("; the full-width comma, ",", ";", "/" and "\n"
Colons == {":", "fw-colon"}
OpenBrackets == {"white-corner", "corner", "("}
Separators == {"fw-comma", ",", ";", "/", NL}

\* the position after the run of at most n characters outside cs that starts
\* at p
RECURSIVE run_end_not(_, _, _, _)
run_end_not(w, p, cs, n) ==
    IF n > 0 /\ p <= Len(w) /\ w[p] \notin cs
    THEN run_end_not(w, p + 1, cs, n - 1)
    ELSE p

\* the group of "<opener>\s*(<class>{need,most})" for the opener at p, with
\* <class> the characters outside stop: \s* takes the whole run of
\* white space and gives characters back one by one until the group has need
\* characters; <<from, to>> of the group, or <<0, 0>>
RECURSIVE group_back(_, _, _, _, _, _)
group_back(w, p, q, stop, need, most) ==
    IF q <= p THEN <<0, 0>>
    ELSE IF run_end_not(w, q, stop, most) - q >= need
         THEN <<q, run_end_not(w, q, stop, most) - 1>>
         ELSE group_back(w, p, q - 1, stop, need, most)

group_after(w, p, stop, need, most) ==
    group_back(w, p, run_end(w, p + 1, Spaces, Len(w)), stop, need, most)

\* re.search of such a pattern in w from position p on: group(1) of the
\* leftmost match, or None
RECURSIVE search_group(_, _, _, _, _, _)
search_group(w, p, openers, stop, need, most) ==
    IF p > Len(w) THEN NoneStr
    ELSE LET g == group_after(w, p, stop, need, most)
         IN IF w[p] \in openers /\ g # <<0, 0>>
            THEN SubSeq(w, g[1], g[2])
            ELSE search_group(w, p + 1, openers, stop, need, most)

\* the longest group of the second pattern: 40 characters of a window of 80
CAND_MAX == NEAR_CHARS \div 2

\* events_detail.py:71: [:：]\s*([^\n]+), or else [『「(]\s*([^)\n]{2,40})
search_party(w) ==
    LET m1 == search_group(w, 1, Colons, {NL}, 1, Len(w))
    IN IF m1 # NoneStr THEN m1
       ELSE search_group(w, 1, OpenBrackets, {")", NL}, 2, CAND_MAX)

\* re.split(r"[，,;/\n]", cand)[0]
RECURSIVE split_first(_)
split_first(c) ==
    IF c = <<>> \/ Head(c) \in Separators THEN <<>>
    ELSE <<Head(c)>> \o split_first(Tail(c))

\* events_detail.py:66-76: the loop over the matches of one keyword; the
\* groups hold no newline, so that strip() removes blanks only
RECURSIVE party_after_matches(_, _)
party_after_matches(t, ms) ==
    IF ms = <<>> THEN NoneStr
    ELSE LET m2 == search_party(Slice(t, Head(ms).end, Head(ms).end + NEAR_CHARS))
         IN IF m2 # NoneStr THEN Strip(split_first(Strip(m2)))
            ELSE party_after_matches(t, Tail(ms))

\* events_detail.py:64-77
RECURSIVE _find_counterparty(_, _)
_find_counterparty(t, key_regexes) ==
    IF key_regexes = <<>> THEN NoneStr
    ELSE LET c == party_after_matches(t, finditer(Head(key_regexes), t, 1))
         IN IF c # NoneStr THEN c
            ELSE _find_counterparty(t, Tail(key_regexes))

\* (None, None, None) of events_detail.py:81, 199
NoTextExtracted == Extraction(NoneStr, NoneStr, NoneStr)

\* events_detail.py:79-85
_extract_from_text(t) ==
    IF t = <<>> THEN NoTextExtracted
    ELSE Extraction(_find_first_number_near(t, AMOUNT_KEYS),
                    _find_counterparty(t, COUNTERPARTY_KEYS),
                    _take_summary(t, SUMMARY_LEN))

\* re.sub(r"[ \t]+", " ", text)
RECURSIVE collapse_blanks(_)
collapse_blanks(t) ==
    IF t = <<>> THEN <<>>
    ELSE IF Head(t) \in {" ", "\t"}
         THEN <<" ">> \o collapse_blanks(SubSeq(t, run_end(t, 1, {" ", "\t"}, Len(t)), Len(t)))
         ELSE <<Head(t)>> \o collapse_blanks(Tail(t))

\* re.sub(r"\n{2,}", "\n", text)
RECURSIVE collapse_newlines(_)
collapse_newlines(t) ==
    IF t = <<>> THEN <<>>
    ELSE IF Head(t) = NL
         THEN <<NL>> \o collapse_newlines(SubSeq(t, run_end(t, 1, {NL}, Len(t)), Len(t)))
         ELSE <<Head(t)>> \o collapse_newlines(Tail(t))

\* the fragments the texts given to _find_first_number_near are built from:
\* 취득금액, 거래금액, 거래 금액, " 1,234,567 원", "89억", "(5.0)", filler
KEY_ACQ == <<"chwi", "deuk", "geum", "aek">>
KEY_DEAL == <<"geo", "rae", "geum", "aek">>
KEY_DEAL_BLANK == <<"geo", "rae", " ", "geum", "aek">>
EXAMPLE_AMOUNT == <<"1", ",", "2", "3", "4", ",", "5", "6", "7">>
EXAMPLE_TAIL == <<" ">> \o EXAMPLE_AMOUNT \o <<" ", "won">>
FILLER == <<"x", "x", "x", "x", "x", "x", "x", "x">>
AmountFragments ==
    {KEY_ACQ, KEY_DEAL, KEY_DEAL_BLANK, EXAMPLE_TAIL, <<"8", "9", "eok">>,
     <<"-", "(", "5", ".", "0", ")">>, FILLER, <<"x">>}

RECURSIVE PiecesOf(_, _)
PiecesOf(frags, n) ==
    IF n = 0 THEN {<<>>}
    ELSE PiecesOf(frags, n - 1)
         \cup {t \o f : t \in PiecesOf(frags, n - 1), f \in frags}

RECURSIVE CharSeqs(_, _)
CharSeqs(cs, n) ==
    IF n = 0 THEN {<<>>}
    ELSE CharSeqs(cs, n - 1)
         \cup {Append(t, c) : t \in CharSeqs(cs, n - 1), c \in cs}

TxIdle == text = <<>> /\ tx_pc = "idle" /\ tx_ret = NoneStr

\* the texts given to _take_summary
SummaryInit ==
    /\ text \in CharSeqs({"a", " ", NL}, MaxText)
    /\ tx_pc = "called" /\ tx_ret = NoneStr

\* the texts given to _find_first_number_near
AmountInit ==
    /\ text \in PiecesOf(AmountFragments, MaxPieces)
    /\ tx_pc = "called" /\ tx_ret = NoneStr

\* one call _take_summary(text, SUMMARY_LEN), events_detail.py:84
TakeSummary ==
    /\ tx_pc = "called"
    /\ tx_ret' = _take_summary(text, SUMMARY_LEN)
    /\ tx_pc' = "returned"
    /\ UNCHANGED text

\* one call _find_first_number_near(text, AMOUNT_KEYS), events_detail.py:82
FindFirstNumberNear ==
    /\ tx_pc = "called"
    /\ tx_ret' = _find_first_number_near(text, AMOUNT_KEYS)
    /\ tx_pc' = "returned"
    /\ UNCHANGED text

(***************************************************************************)
(* try_enrich_one (events_detail.py:90-131, 160-207)                       *)
(***************************************************************************)
\* what a call of the transport gives: it raises, or it returns a blob, of
\* which the model keeps the length in bytes, whether the parser handed the
\* blob accepts it, the nodes BeautifulSoup(blob, "xml") finds in it and the
\* text BeautifulSoup(blob, "lxml").get_text("\n", strip=True) finds in it
Raises ==
    [raises |-> TRUE, size |-> 0, wellformed |-> TRUE, nodes |-> <<>>,
     text |-> <<>>]
Blob(size, wellformed, nodes, t) ==
    [raises |-> FALSE, size |-> size, wellformed |-> wellformed,
     nodes |-> nodes, text |-> t]
EmptyBlob == Blob(0, TRUE, <<>>, <<>>)
\* None where a blob is expected (xml_bytes = None, events_detail.py:165):
\* the length no blob has
NoBytes == Blob(-1, TRUE, <<>>, <<>>)

\* Python's truth value of a str or None, and of a bytes or None
truthy(v) == v # NoneStr /\ v # <<>>
truthy_bytes(b) == b.size > 0

\* events_detail.py:31-41; a blob the HTML parser rejects raises
_clean_text(blob) ==
    IF ~truthy_bytes(blob) THEN <<>>
    ELSE collapse_newlines(collapse_blanks(blob.text))

\* events_detail.py:101, 106: the tags probed for the name and for the
\* location of a manifest node
NAME_TAGS == <<"fileName", "filename", "title", "name">>
URL_TAGS == <<"url", "fileUrl", "downloadUrl">>
Tags == {"fileName", "filename", "title", "name", "url", "fileUrl", "downloadUrl"}

\* a manifest node: the text of each of its child tags, empty for a tag it
\* has not
NoTags == [tag \in Tags |-> <<>>]
N_A == [NoTags EXCEPT !["fileName"] = <<"a">>, !["url"] = <<"u1">>]
N_B == [NoTags EXCEPT !["title"] = <<"b">>, !["name"] = <<"n">>,
                      !["downloadUrl"] = <<" ", "u2">>]
N_C == [NoTags EXCEPT !["name"] = <<"c">>]
N_BLANK == [NoTags EXCEPT !["filename"] = <<" ">>]

\* events_detail.py:101-110: the stripped text of the first tag that has
\* text, or None
RECURSIVE first_tag_text(_, _)
first_tag_text(node, tags) ==
    IF tags = <<>> THEN NoneStr
    ELSE IF node[Head(tags)] # <<>> THEN Strip(node[Head(tags)])
    ELSE first_tag_text(node, Tail(tags))

DocumentItem(name, url) == [name |-> name, url |-> url]

\* events_detail.py:98-112
RECURSIVE items_of(_)
items_of(nodes) ==
    IF nodes = <<>> THEN <<>>
    ELSE LET name == first_tag_text(Head(nodes), NAME_TAGS)
             url == first_tag_text(Head(nodes), URL_TAGS)
         IN (IF truthy(name) \/ truthy(url)
             THEN <<DocumentItem(name, url)>> ELSE <<>>)
            \o items_of(Tail(nodes))

\* events_detail.py:114-120
RECURSIVE uniq_items(_, _)
uniq_items(its, seen) ==
    IF its = <<>> THEN <<>>
    ELSE IF Head(its) \in seen THEN uniq_items(Tail(its), seen)
    ELSE <<Head(its)>> \o uniq_items(Tail(its), seen \cup {Head(its)})

\* _parse_document_xml without the removal of duplicates
parse_without_dedup(xml) == items_of(xml.nodes)

\* events_detail.py:90-121, for a blob the XML parser accepts
_parse_document_xml(xml) == uniq_items(items_of(xml.nodes), {})

\* s[:n]
Take(s, n) == SubSeq(s, 1, Min(n, Len(s)))

\* events_detail.py:123-131
_viewer_urls(rcept_no) == << <<"viewer.do", rcept_no>>, <<"main.do", rcept_no>> >>

\* the salience keywords of events_detail.py:192: 주요사항, 금액, 거래
SALIENCE == {<<"ju", "yo", "sa", "hang">>, <<"geum", "aek">>, <<"geo", "rae">>}

\* events_detail.py:192 without the keywords
viewer_accepts_any(txt) == txt # <<>>

\* events_detail.py:192
viewer_accepts(txt) == txt # <<>> /\ \E kw \in SALIENCE : Contains(kw, txt)

\* events_detail.py:176, 189
skipped_blob(blob) == ~truthy_bytes(blob) \/ blob.size > TEXT_BYTES_LIMIT

\* `x or y` keeping the later value
or_latest(x, y) == IF truthy(y) THEN y ELSE x

\* events_detail.py:202-204: `best or x`
or_else(x, y) == IF truthy(x) THEN x ELSE y

\* events_detail.py:199-207: the loop over texts
RECURSIVE best_of(_, _)
best_of(ts, best) ==
    IF ts = <<>> THEN best
    ELSE LET x == _extract_from_text(Head(ts))
             b == Extraction(or_else(best.amount, x.amount),
                             or_else(best.counterparty, x.counterparty),
                             or_else(best.summary, x.summary))
         IN IF truthy(b.amount) /\ truthy(b.counterparty) /\ truthy(b.summary)
            THEN b
            ELSE best_of(Tail(ts), b)

\* the texts the HTML parser finds in the documents of the model:
\* "xx  x" (no keyword); "거래상대방: Y"; "취득금액 89억";
\* "주요사항\n거래금액 7\n양수인(Z, W)"
DOC_NOTICE == <<"x", "x", " ", " ", "x">>
DOC_PARTY == <<"geo", "rae", "sang", "dae", "bang", ":", " ", "Y">>
DOC_AMOUNT == KEY_ACQ \o <<" ", "8", "9", "eok">>
DOC_BOTH ==
    <<"ju", "yo", "sa", "hang", NL>> \o KEY_DEAL \o <<" ", "7", NL>>
    \o <<"yang", "su", "in", "(", "Z", ",", " ", "W", ")">>

RECURSIVE NodeSeqs(_)
NodeSeqs(n) ==
    IF n = 0 THEN {<<>>}
    ELSE NodeSeqs(n - 1)
         \cup {Append(ns, nd) : ns \in NodeSeqs(n - 1), nd \in {N_A, N_B, N_C}}

\* what the manifest endpoint may give for a filing: a failure, no bytes, a
\* blob the XML parser rejects, a blob over the size cap, and manifests of
\* up to MaxNodes nodes
Manifest(nodes) == Blob(100, TRUE, nodes, <<>>)
ManifestOutcomes ==
    {Raises, EmptyBlob,
     Blob(100, FALSE, <<>>, <<>>),
     Blob(TEXT_BYTES_LIMIT + 1, TRUE, <<N_A, N_B>>, <<>>),
     Manifest(<<N_BLANK, N_B>>)}
    \cup {Manifest(ns) : ns \in NodeSeqs(MaxNodes)}

\* what the two attachment URLs and the two viewer URLs may give
FirstAttachmentOutcomes ==
    {Raises, Blob(TEXT_BYTES_LIMIT + 1, TRUE, <<>>, DOC_BOTH),
     Blob(50, TRUE, <<>>, DOC_PARTY)}
SecondAttachmentOutcomes ==
    {Blob(7, TRUE, <<>>, <<>>), Blob(TEXT_BYTES_LIMIT, TRUE, <<>>, DOC_AMOUNT),
     Blob(50, TRUE, <<>>, DOC_NOTICE)}
FirstViewerOutcomes ==
    {Raises, EmptyBlob, Blob(50, TRUE, <<>>, DOC_NOTICE),
     Blob(50, TRUE, <<>>, DOC_BOTH)}
SecondViewerOutcomes ==
    {Blob(TEXT_BYTES_LIMIT + 1, TRUE, <<>>, DOC_AMOUNT),
     Blob(50, TRUE, <<>>, DOC_AMOUNT), Blob(50, FALSE, <<>>, DOC_PARTY)}

\* the remote side for one filing: the manifest of the receipt number and
\* the page behind every URL
World(m, a1, a2, v1, v2, rcept_no) ==
    [manifest |-> m,
     page |-> (<<"u1">> :> a1) @@ (<<"u2">> :> a2)
              @@ (_viewer_urls(rcept_no)[1] :> v1)
              @@ (_viewer_urls(rcept_no)[2] :> v2)]
NoWorld == [manifest |-> Raises, page |-> <<>>]

\* the worlds of the first filing of a run, and of the later ones
Worlds(rcept_no) ==
    {World(m, a1, a2, v1, v2, rcept_no) :
        m \in ManifestOutcomes, a1 \in FirstAttachmentOutcomes,
        a2 \in SecondAttachmentOutcomes, v1 \in FirstViewerOutcomes,
        v2 \in SecondViewerOutcomes}
LaterWorlds(rcept_no) ==
    {World(m, Blob(50, TRUE, <<>>, DOC_PARTY), Blob(50, TRUE, <<>>, DOC_NOTICE),
           Raises, Blob(50, TRUE, <<>>, DOC_AMOUNT), rcept_no) :
        m \in {Raises, Blob(100, FALSE, <<>>, <<>>), Manifest(<<N_B, N_A>>)}}

\* client.get_document_xml(rcp_no) and client.get_binary(url)
get_document_xml(w, rcept_no) == w.manifest
get_binary(w, url) == w.page[url]

Call(kind, url, got) == [kind |-> kind, url |-> url, got |-> got]

TeIdle ==
    /\ te_pc = "idle" /\ remote = NoWorld /\ xml_bytes = NoBytes /\ items = <<>>
    /\ te_i = 0 /\ texts = <<>> /\ calls = <<>> /\ parsed = <<>>

\* the tables given to enrich_events_detail when try_enrich_one is followed
\* step by step
DetailInit ==
    /\ events_in \in {NoFile, Table(OUT_COLUMNS, <<>>),
                      Table(OUT_COLUMNS, <<FRESH_ROW, PARTIAL_ROW>>)}
    /\ events_out = NoFile
    /\ en_pc = "start"
    /\ df = <<>> /\ keys = <<>> /\ enriched = <<>>

\* the receipt number try_enrich_one is called with (events_detail.py:211)
rcp_no == keys[Len(enriched) + 1]

\* where try_enrich_one goes after the item before items[i]
after_items(its, i, ts) ==
    IF i <= Len(its) THEN "attach"
    ELSE IF ts = <<>> THEN "viewer" ELSE "extract"

\* events_detail.py:211-212, 161-169: try_enrich_one is called for the next
\* receipt number; the manifest is fetched and parsed.  An exception of the
\* parser is not caught, neither here nor at events_detail.py:212
FetchManifest ==
    /\ en_pc = "enrich" /\ te_pc = "idle"
    /\ Len(enriched) < Len(keys)
    /\ \E w \in (IF enriched = <<>> THEN Worlds(rcp_no) ELSE LaterWorlds(rcp_no)) :
        LET got == get_document_xml(w, rcp_no)
            xb == IF got.raises THEN NoBytes ELSE got
            its == IF truthy_bytes(xb) /\ xb.wellformed
                   THEN Take(_parse_document_xml(xb), MAX_DOCS_PER_EVENT)
                   ELSE <<>>
        IN /\ remote' = w
           /\ xml_bytes' = xb
           /\ calls' = <<Call("manifest", rcp_no, got)>>
           /\ parsed' = IF truthy_bytes(xb) THEN <<xb>> ELSE <<>>
           /\ items' = its
           /\ IF truthy_bytes(xb) /\ ~xb.wellformed
              THEN te_pc' = "raised" /\ en_pc' = "raised"
              ELSE te_pc' = after_items(its, 1, <<>>) /\ en_pc' = en_pc
    /\ te_i' = 1 /\ texts' = <<>>
    /\ UNCHANGED <<events_in, events_out, df, keys, enriched>>

\* events_detail.py:170-182: one turn of the loop over items
FetchAttachment ==
    /\ te_pc = "attach"
    /\ LET url == items[te_i].url
           got == get_binary(remote, url)
           used == truthy(url) /\ ~got.raises /\ ~skipped_blob(got)
           txt == IF used /\ got.wellformed THEN _clean_text(got) ELSE <<>>
       IN /\ calls' = IF truthy(url)
                      THEN Append(calls, Call("attachment", url, got))
                      ELSE calls
          /\ parsed' = IF used THEN Append(parsed, got) ELSE parsed
          /\ texts' = IF txt # <<>> THEN Append(texts, txt) ELSE texts
    /\ te_pc' = after_items(items, te_i + 1, texts')
    /\ te_i' = IF te_i < Len(items) THEN te_i + 1 ELSE 1
    /\ UNCHANGED <<remote, xml_bytes, items, enVars>>

\* events_detail.py:185-196: one turn of the loop over the viewer URLs
FetchViewer ==
    /\ te_pc = "viewer"
    /\ LET url == _viewer_urls(rcp_no)[te_i]
           got == get_binary(remote, url)
           used == ~got.raises /\ ~skipped_blob(got)
           txt == IF used /\ got.wellformed THEN _clean_text(got) ELSE <<>>
       IN /\ calls' = Append(calls, Call("viewer", url, got))
          /\ parsed' = IF used THEN Append(parsed, got) ELSE parsed
          /\ IF viewer_accepts(txt)
             THEN texts' = Append(texts, txt) /\ te_pc' = "extract"
             ELSE /\ texts' = texts
                  /\ te_pc' = IF te_i < Len(_viewer_urls(rcp_no))
                              THEN "viewer" ELSE "extract"
    /\ te_i' = te_i + 1
    /\ UNCHANGED <<remote, xml_bytes, items, enVars>>

\* events_detail.py:207, 213: the tuple returned, with None as the rows of
\* the table have it
returned_value(v) == IF v = NoneStr THEN None ELSE v
returned_tuple(x) ==
    Extraction(returned_value(x.amount), returned_value(x.counterparty),
               returned_value(x.summary))

\* events_detail.py:198-207, 213: the fields are extracted from texts and
\* try_enrich_one returns
ExtractFields ==
    /\ te_pc = "extract"
    /\ enriched' = Append(enriched,
                          [rcp |-> rcp_no,
                           add |-> returned_tuple(best_of(texts, NoTextExtracted))])
    /\ te_pc' = "idle"
    /\ UNCHANGED <<events_in, events_out, en_pc, df, keys>>
    /\ UNCHANGED <<remote, xml_bytes, items, te_i, texts, calls, parsed>>

(***************************************************************************)
(* Specifications                                                          *)
(***************************************************************************)
\* the company directories of a run: absent, or listing these companies
Directories == {NoDirectory, Directory(<<"A", "B">>)}

\* one call of _classify_event
InitClassify ==
    /\ ClsInit /\ GenIdle /\ CkIdle /\ RunIdle /\ GetIdle /\ EnIdle
    /\ TxIdle /\ TeIdle
NextClassify ==
    ClassifyEvent /\ UNCHANGED <<genVars, ckVars, envVars, runVars, histVars, auxVars>>
SpecClassify == InitClassify /\ [][NextClassify]_vars

\* one run of the generator _daterange_chunks
InitChunks ==
    /\ GenInit /\ ClsIdle /\ CkIdle /\ RunIdle /\ GetIdle /\ EnIdle
    /\ TxIdle /\ TeIdle
NextChunks ==
    \/ YieldChunk /\ UNCHANGED <<clsVars, ckVars, envVars, runVars, histVars, auxVars>>
    \/ ChunksExhausted
        /\ UNCHANGED <<clsVars, ckVars, envVars, runVars, histVars, auxVars>>
SpecChunks == InitChunks /\ [][NextChunks]_vars

\* _write_checkpoint, then once more on the table it wrote
InitCompact ==
    /\ CkInit /\ ClsIdle /\ GenIdle /\ GetIdle /\ EnIdle
    /\ TxIdle /\ TeIdle
    /\ corp_master = NoDirectory
    /\ pc = "idle" /\ start_date = 0 /\ end_date = 0 /\ dim = <<>>
    /\ idx = 0 /\ win = 0 /\ page_no = 0 /\ rows = <<>> /\ j = NoResponse
    /\ lst = <<>> /\ all_rows = <<>>
    /\ totals = <<>> /\ ckpt = NoCkpt /\ run = 0 /\ log = <<>> /\ req_no = 0
    /\ file_run1 = NoFile
    /\ pages = <<>> /\ skipped = 0 /\ sleeps = 0 /\ filed = NoScript
    /\ queried = <<>>
NextCompact ==
    \/ Compact
        /\ UNCHANGED <<clsVars, genVars, corp_master, runVars, histVars,
                     auxVars>>
    \/ CompactAgain
        /\ UNCHANGED <<clsVars, genVars, corp_master, runVars, histVars,
                     auxVars>>
SpecCompact == InitCompact /\ [][NextCompact]_vars

\* one call of DartClient.get
InitGet ==
    /\ GetInit /\ ClsIdle /\ GenIdle /\ CkIdle /\ RunIdle /\ EnIdle
    /\ TxIdle /\ TeIdle
NextGet ==
    \/ GetAttempt
        /\ UNCHANGED <<clsVars, genVars, ckVars, envVars, runVars, histVars,
                       enVars, moreVars>>
    \/ GetExhausted
        /\ UNCHANGED <<clsVars, genVars, ckVars, envVars, runVars, histVars,
                       enVars, moreVars>>
SpecGet == InitGet /\ [][NextGet]_vars

\* enrich_events_detail, and again on its own output
InitEnrich ==
    /\ EnInit /\ ClsIdle /\ GenIdle /\ CkIdle /\ RunIdle /\ GetIdle
    /\ TxIdle /\ TeIdle
NextEnrich ==
    \/ EnrichStart
        /\ UNCHANGED <<clsVars, genVars, ckVars, envVars, runVars, histVars,
                       getVars, moreVars>>
    \/ EnrichOne
        /\ UNCHANGED <<clsVars, genVars, ckVars, envVars, runVars, histVars,
                       getVars, moreVars>>
    \/ MergeAndWrite
        /\ UNCHANGED <<clsVars, genVars, ckVars, envVars, runVars, histVars,
                       getVars, moreVars>>
    \/ EnrichAgain
        /\ UNCHANGED <<clsVars, genVars, ckVars, envVars, runVars, histVars,
                       getVars, moreVars>>
SpecEnrich == InitEnrich /\ [][NextEnrich]_vars

\* one run of backfill_events
Init ==
    /\ RunInit(Directories, FALSE) /\ ClsIdle /\ GenIdle /\ CkIdle
    /\ GetIdle /\ EnIdle /\ TxIdle /\ TeIdle
Next ==
    \/ LoadCorpMaster /\ UNCHANGED <<clsVars, genVars, ckVars, auxVars>>
    \/ FetchPage /\ UNCHANGED <<clsVars, genVars, ckVars, auxVars>>
    \/ ClassifyWindow /\ UNCHANGED <<clsVars, genVars, ckVars, auxVars>>
    \/ FinalWrite /\ UNCHANGED <<clsVars, genVars, ckVars, auxVars>>
Spec == Init /\ [][Next]_vars

\* one run of backfill_events with years = 1 over the companies A and B,
\* against a list endpoint that holds one merger filing of company A
FilingDays == {0, 89, 90, 200, YEAR_DAYS}
InitEndToEnd ==
    /\ corp_master = Directory(<<"A", "B">>)
    /\ file \in InitialFiles
    /\ pc = "start"
    /\ end_date = YEAR_DAYS * 1
    /\ start_date = end_date - YEAR_DAYS * 1
    /\ dim = <<>> /\ idx = 0 /\ win = 0 /\ page_no = 0 /\ rows = <<>>
    /\ j = NoResponse /\ lst = <<>> /\ all_rows = <<>>
    /\ totals = <<>> /\ ckpt = NoCkpt /\ run = 0
    /\ log = <<>> /\ req_no = 0 /\ file_run1 = NoFile
    /\ pages = <<>> /\ skipped = 0 /\ sleeps = 0 /\ queried = <<>>
    /\ filed \in {OneFiling("A", d) : d \in FilingDays}
    /\ ClsIdle /\ GenIdle /\ CkIdle /\ GetIdle /\ EnIdle
    /\ TxIdle /\ TeIdle
NextEndToEnd ==
    \/ LoadCorpMaster /\ UNCHANGED <<clsVars, genVars, ckVars, auxVars>>
    \/ FetchPage /\ UNCHANGED <<clsVars, genVars, ckVars, auxVars>>
    \/ ClassifyWindow /\ UNCHANGED <<clsVars, genVars, ckVars, auxVars>>
    \/ FinalWrite /\ UNCHANGED <<clsVars, genVars, ckVars, auxVars>>
SpecEndToEnd == InitEndToEnd /\ [][NextEndToEnd]_vars

\* enrich_events_detail with try_enrich_one followed step by step
InitDetail ==
    /\ DetailInit /\ TeIdle /\ ClsIdle /\ GenIdle /\ CkIdle /\ RunIdle
    /\ GetIdle /\ TxIdle
NextDetail ==
    \/ EnrichStart
        /\ UNCHANGED <<clsVars, genVars, ckVars, envVars, runVars, histVars,
                       getVars, moreVars>>
    \/ FetchManifest
        /\ UNCHANGED <<clsVars, genVars, ckVars, envVars, runVars, histVars,
                       getVars, txVars>>
    \/ FetchAttachment
        /\ UNCHANGED <<clsVars, genVars, ckVars, envVars, runVars, histVars,
                       getVars, txVars>>
    \/ FetchViewer
        /\ UNCHANGED <<clsVars, genVars, ckVars, envVars, runVars, histVars,
                       getVars, txVars>>
    \/ ExtractFields
        /\ UNCHANGED <<clsVars, genVars, ckVars, envVars, runVars, histVars,
                       getVars, txVars>>
    \/ MergeAndWrite
        /\ UNCHANGED <<clsVars, genVars, ckVars, envVars, runVars, histVars,
                       getVars, moreVars>>
SpecDetail == InitDetail /\ [][NextDetail]_vars

\* one call of _take_summary
InitSummary ==
    /\ SummaryInit /\ ClsIdle /\ GenIdle /\ CkIdle /\ RunIdle /\ GetIdle
    /\ EnIdle /\ TeIdle
NextSummary ==
    TakeSummary
        /\ UNCHANGED <<clsVars, genVars, ckVars, envVars, runVars, histVars,
                       getVars, enVars, teVars>>
SpecSummary == InitSummary /\ [][NextSummary]_vars

\* one call of _find_first_number_near
InitAmount ==
    /\ AmountInit /\ ClsIdle /\ GenIdle /\ CkIdle /\ RunIdle /\ GetIdle
    /\ EnIdle /\ TeIdle
NextAmount ==
    FindFirstNumberNear
        /\ UNCHANGED <<clsVars, genVars, ckVars, envVars, runVars, histVars,
                       getVars, enVars, teVars>>
SpecAmount == InitAmount /\ [][NextAmount]_vars

\* two runs of backfill_events in succession, over one company
InitRerun ==
    /\ RunInit({Directory(<<"A">>)}, TRUE) /\ ClsIdle /\ GenIdle /\ CkIdle
    /\ GetIdle /\ EnIdle /\ TxIdle /\ TeIdle
NextRerun ==
    \/ LoadCorpMaster /\ UNCHANGED <<clsVars, genVars, ckVars, auxVars>>
    \/ FetchPage /\ UNCHANGED <<clsVars, genVars, ckVars, auxVars>>
    \/ ClassifyWindow /\ UNCHANGED <<clsVars, genVars, ckVars, auxVars>>
    \/ FinalWrite /\ UNCHANGED <<clsVars, genVars, ckVars, auxVars>>
    \/ RunAgain /\ UNCHANGED <<clsVars, genVars, ckVars, auxVars>>
SpecRerun == InitRerun /\ [][NextRerun]_vars

(***************************************************************************)
(* Vocabulary of the properties                                            *)
(***************************************************************************)
\* the rules whose keyword is a substring of the stripped title
MatchingRules(nm) ==
    {i \in 1..Len(EVENT_RULES) : Contains(EVENT_RULES[i].kw, Strip(nm))}

\* the first of them in list order
FirstMatch(nm) ==
    CHOOSE i \in MatchingRules(nm) : \A k \in MatchingRules(nm) : i <= k

\* the title holds a keyword or the catch-all phrase
IsClassifiable(nm) ==
    MatchingRules(nm) # {} \/ Contains(MAJOR_PHRASE, Strip(nm))

\* the buffer at the last call of _write_checkpoint
BufferAtCkpt == SubSeq(all_rows, 1, ckpt.n)

\* the last row of rs with the key
LastWithKey(rs, key) ==
    rs[CHOOSE a \in 1..Len(rs) :
          /\ Key(rs[a]) = key
          /\ \A b \in 1..Len(rs) : Key(rs[b]) = key => b <= a]

RowSet(rs) == {rs[k] : k \in 1..Len(rs)}

\* windows ws cover b..e in order, without gap or overlap, each of at most
\* step days
WellFormedChunks(ws, b, e, step) ==
    /\ Len(ws) >= 1
    /\ ws[1][1] = b
    /\ ws[Len(ws)][2] = e
    /\ \A k \in 1..Len(ws) :
        /\ ws[k][1] <= ws[k][2]
        /\ ws[k][2] - ws[k][1] + 1 <= step
    /\ \A k \in 1..(Len(ws) - 1) : ws[k + 1][1] = ws[k][2] + 1

\* ceil(t / 100), by its definition
CeilPages(t) ==
    CHOOSE n \in 0..(t + 1) : n * 100 >= t /\ (n - 1) * 100 < t

NonGrowing(ts) == \A k \in 1..(Len(ts) - 1) : ts[k + 1] <= ts[k]

\* what ends the reading of a window after the response to page p
StopCause(resp, p) ==
    \/ resp.status \notin {"000", "013"}
    \/ resp.list = <<>>
    \/ p >= CeilPages(total_count_of(resp))

\* the items listed by the responses ps, in order
RECURSIVE ConcatLists(_)
ConcatLists(ps) ==
    IF ps = <<>> THEN <<>> ELSE Head(ps).list \o ConcatLists(Tail(ps))

\* the keys of the stubs of l whose title holds a keyword or the catch-all
\* phrase, in order
RECURSIVE ClassifiableKeys(_)
ClassifiableKeys(l) ==
    IF l = <<>> THEN <<>>
    ELSE IF IsClassifiable(Head(l).report_nm)
         THEN <<(<<Head(l).rcept_no, Head(l).corp_code>>)>>
              \o ClassifiableKeys(Tail(l))
         ELSE ClassifiableKeys(Tail(l))

\* the keys of the rows rs, in order
KeySeq(rs) == [k \in 1..Len(rs) |-> Key(rs[k])]

AcceptedStatus == {"000", "013"}

\* the number of HTTP requests a call of DartClient.get has sent
sent == Len(exchanges)

\* the stubs of l whose title holds a keyword or the catch-all phrase
ClassifiableStubs(l) ==
    SelectSeq(l, LAMBDA it : IsClassifiable(it.report_nm))

\* the receipt dates of the model that are dates written YYYYMMDD
ParsableDate(d) == d \in {"20231201", "20240105", "20240110"}

\* every company-window of the run, companies in directory order, the
\* windows of a company in chronological order
ExpectedQueries ==
    [k \in 1..(Len(dim) * Len(Windows)) |->
        <<dim[((k - 1) \div Len(Windows)) + 1],
          Windows[((k - 1) % Len(Windows)) + 1]>>]

\* the first newline-delimited paragraph of t: its longest prefix without a
\* newline
Paragraph(t) ==
    LET n == CHOOSE k \in 0..Len(t) :
                 /\ \A i \in 1..k : t[i] # NL
                 /\ k = Len(t) \/ t[k + 1] = NL
    IN SubSeq(t, 1, n)

\* the strings a keyword regex stands for
RECURSIVE Instances(_)
Instances(kr) ==
    IF kr = <<>> THEN {<<>>}
    ELSE {<<Head(kr).ch>> \o rest : rest \in Instances(Tail(kr))}
         \cup (IF Head(kr).opt THEN Instances(Tail(kr)) ELSE {})

\* the occurrences of a keyword in t, with the index of the first character
\* (counted from 0) and the index after the last
Occurrences(kr, t) ==
    {m \in {[start |-> a, end |-> a + Len(i)] :
                a \in 0..Len(t), i \in Instances(kr)} :
        m.end <= Len(t) /\ SubSeq(t, m.start + 1, m.end) \in Instances(kr)}

\* the NEAR_CHARS characters before an occurrence, the occurrence and the
\* NEAR_CHARS characters after it
WindowAround(t, m) ==
    LET from == IF m.start > NEAR_CHARS THEN m.start - NEAR_CHARS + 1 ELSE 1
        to == IF m.end + NEAR_CHARS < Len(t) THEN m.end + NEAR_CHARS ELSE Len(t)
    IN [i \in 1..(to - from + 1) |-> t[from + i - 1]]

\* the keyword occurrences of t whose window holds a numeric token, with the
\* rank of the keyword in AMOUNT_KEYS
AmountCandidates(t) ==
    {c \in UNION {{[key |-> k, at |-> m] : m \in Occurrences(AMOUNT_KEYS[k], t)} :
                  k \in 1..Len(AMOUNT_KEYS)} :
        search_num(WindowAround(t, c.at), 1) # NoneStr}

\* keyword order first, text order within a keyword
VisitedBefore(c, o) ==
    c.key < o.key \/ (c.key = o.key /\ c.at.start <= o.at.start)

\* try_enrich_one has returned for a filing and its locals are still in
\* place; what it returned
HasReturned == te_pc = "idle" /\ enriched # <<>>
LastReturned == enriched[Len(enriched)]

\* the cleaned text of a response that was received, is not empty, is within
\* the size cap and is accepted by the parser; empty otherwise
Usable(got) ==
    /\ ~got.raises /\ got.size > 0 /\ got.size <= TEXT_BYTES_LIMIT
    /\ got.wellformed
DocText(got) == IF Usable(got) THEN _clean_text(got) ELSE <<>>

\* the texts of the manifest items, in the order of the items
RECURSIVE ManifestTexts(_, _)
ManifestTexts(its, w) ==
    IF its = <<>> THEN <<>>
    ELSE (IF truthy(Head(its).url) /\ DocText(w.page[Head(its).url]) # <<>>
          THEN <<DocText(w.page[Head(its).url])>> ELSE <<>>)
         \o ManifestTexts(Tail(its), w)

\* a text holds a salience keyword
Salient(t) == \E kw \in SALIENCE : Contains(kw, t)

\* the viewer pages of a filing in the order of the viewer URLs, the pages
\* among them with a salient text, and the viewer fallback text
ViewerPages(w, rcept_no) ==
    [k \in 1..Len(_viewer_urls(rcept_no)) |-> w.page[_viewer_urls(rcept_no)[k]]]
SalientPages(w, rcept_no) ==
    {k \in 1..Len(_viewer_urls(rcept_no)) :
        Salient(DocText(ViewerPages(w, rcept_no)[k]))}
ViewerText(w, rcept_no) ==
    IF SalientPages(w, rcept_no) = {} THEN <<>>
    ELSE LET first == CHOOSE k \in SalientPages(w, rcept_no) :
                          \A o \in SalientPages(w, rcept_no) : k <= o
         IN <<DocText(ViewerPages(w, rcept_no)[first])>>

\* v is the first non-empty value of vals, and None or empty when vals has
\* none
IsFirstNonEmpty(v, vals) ==
    IF \E k \in 1..Len(vals) : truthy(vals[k])
    THEN \E k \in 1..Len(vals) :
            /\ truthy(vals[k]) /\ v = vals[k]
            /\ \A o \in 1..(k - 1) : ~truthy(vals[o])
    ELSE ~truthy(v)

\* a value of the table as a text
AsText(v) == IF v = None THEN NoneStr ELSE v

\* each field of found is the first non-empty value the extractor finds for
\* it over the texts ts
FirstPerField(found, ts) ==
    /\ IsFirstNonEmpty(AsText(found.amount),
                       [k \in 1..Len(ts) |-> _extract_from_text(ts[k]).amount])
    /\ IsFirstNonEmpty(AsText(found.counterparty),
                       [k \in 1..Len(ts) |-> _extract_from_text(ts[k]).counterparty])
    /\ IsFirstNonEmpty(AsText(found.summary),
                       [k \in 1..Len(ts) |-> _extract_from_text(ts[k]).summary])

\* the calls of one kind among the transport calls made for the filing
CallsOf(kind) == SelectSeq(calls, LAMBDA c : c.kind = kind)

(***************************************************************************)
(* C1: when the stripped title contains a keyword of EVENT_RULES, the      *)
(* classifier returns the (event_type, sub_type) of the first rule, in     *)
(* list order, whose keyword is a substring of it.                         *)
(***************************************************************************)
C1_FirstRuleWins ==
    (cls_pc = "returned" /\ isinstance_str(report_nm)
        /\ MatchingRules(report_nm) # {})
    => cls_result = <<EVENT_RULES[FirstMatch(report_nm)].etype,
                      EVENT_RULES[FirstMatch(report_nm)].sub>>

\* a title matched by several rules with different answers has been classified
C1_Witness ==
    /\ cls_pc = "returned"
    /\ Cardinality(MatchingRules(report_nm)) >= 3
    /\ Contains(<<"bun", "hal", "hap", "byeong">>, report_nm)
    /\ cls_result = <<"MNA", "MERGER">>

(***************************************************************************)
(* C2: in every state of a run, every buffered row and every persisted row *)
(* has an event_type, and its title holds a keyword or the catch-all       *)
(* phrase: a filing with neither never produces a row.                     *)
(***************************************************************************)
C2_EventTypeNeverNull ==
    /\ \A k \in 1..Len(all_rows) :
        /\ all_rows[k].event_type # None
        /\ IsClassifiable(all_rows[k].report_nm)
    /\ \A k \in 1..Len(file.rows) :
        /\ file.rows[k].event_type # None
        /\ IsClassifiable(file.rows[k].report_nm)

\* a run has finished whose last window listed a filing without keyword
\* beside one with a keyword
C2_Witness ==
    /\ pc = "done"
    /\ \E k \in 1..Len(lst) : ~IsClassifiable(lst[k].report_nm)
    /\ \E k \in 1..Len(lst) : IsClassifiable(lst[k].report_nm)
    /\ file.rows = all_rows
    /\ all_rows # <<>>

(***************************************************************************)
(* C3: after the final write of a run the table at out_path has no two     *)
(* rows with the same (rcp_no, corp_code).                                 *)
(***************************************************************************)
C3_FinalTableHasUniqueKeys ==
    pc = "done" => NoDupKeys(file.rows)

(***************************************************************************)
(* C4: every call of _write_checkpoint, interim or final, leaves the merge *)
(* of the rows persisted before it and the buffered rows: every key of     *)
(* either is in the table, and a key of the buffer has its last buffered   *)
(* row.                                                                    *)
(***************************************************************************)
C4_EveryCompactionMerges ==
    ckpt.mode # "none"
    => /\ Keys(ckpt.old.rows) \cup Keys(BufferAtCkpt) \subseteq Keys(file.rows)
       /\ \A k \in 1..Len(file.rows) :
            Key(file.rows[k]) \in Keys(BufferAtCkpt)
            => file.rows[k] = LastWithKey(BufferAtCkpt, Key(file.rows[k]))

(***************************************************************************)
(* C5: the run never moves on to the next window with CHECKPOINT_EVERY or  *)
(* more rows buffered since the last checkpoint.                           *)
(***************************************************************************)
C5_CheckpointEveryThreshold ==
    pc \in {"fetch", "final"}
    => Len(all_rows) - ckpt.n < CHECKPOINT_EVERY

(***************************************************************************)
(* C6: after a run that buffered no row, the table at out_path is the      *)
(* empty table with the columns OUT_COLUMNS, whatever was there before.    *)
(***************************************************************************)
C6_ZeroRowRunLeavesEmptyTable ==
    (pc = "done" /\ all_rows = <<>>)
    => file = Table(OUT_COLUMNS, <<>>)

(***************************************************************************)
(* C7: compacting a table without duplicate keys against itself leaves the *)
(* same rows: the same set of rows, and as many.                           *)
(***************************************************************************)
C7_CompactionIdempotent ==
    (ck_pc = "done" /\ ck_old.exists /\ NoDupKeys(ck_old.rows))
    => /\ file.exists
       /\ RowSet(file.rows) = RowSet(ck_old.rows)
       /\ Len(file.rows) = Len(ck_old.rows)

\* a table of several rows, itself the result of a merge, has been compacted
\* against itself in the merging mode
C7_Witness ==
    /\ ck_pc = "done"
    /\ ck_mode = "ab"
    /\ NoDupKeys(ck_old.rows)
    /\ Len(ck_old.rows) >= 2
    /\ ck_rows = ck_old.rows

(***************************************************************************)
(* C8: a second run against the same directory, range and responses leaves *)
(* the table with the rows the first run left.                             *)
(***************************************************************************)
C8_RerunSameTable ==
    (run = 2 /\ pc = "done")
    => /\ req_no = Len(log)
       /\ file.exists = file_run1.exists
       /\ RowSet(file.rows) = RowSet(file_run1.rows)
       /\ Len(file.rows) = Len(file_run1.rows)

\* a second run has finished that buffered enough rows for an interim
\* checkpoint, over a table the first run left with rows
C8_Witness ==
    /\ run = 2 /\ pc = "done"
    /\ Len(all_rows) > CHECKPOINT_EVERY
    /\ file_run1.rows # <<>>

(***************************************************************************)
(* C9: for bgn <= end and step_days >= 1 the windows are inclusive, in     *)
(* chronological order, contiguous and non-overlapping, start at bgn, end  *)
(* at end and span at most step_days days each; 200 days in steps of 90    *)
(* give [0,89], [90,179], [180,199].                                       *)
(***************************************************************************)
C9_ChunksPartitionRange ==
    (gen_pc = "done" /\ bgn <= end)
    => /\ WellFormedChunks(chunks, bgn, end, step_days)
       /\ chunks = _daterange_chunks(bgn, end, step_days)
       /\ (bgn = 0 /\ end = 199 /\ step_days = 90)
            => chunks = <<(<<0, 89>>), (<<90, 179>>), (<<180, 199>>)>>

\* the generator has finished a range that needed several windows, the last
\* one shorter than the step
C9_Witness ==
    /\ gen_pc = "done"
    /\ bgn <= end
    /\ Len(chunks) >= 3
    /\ chunks[Len(chunks)][2] - chunks[Len(chunks)][1] + 1 < step_days

(***************************************************************************)
(* C10, as stated: the reading of one company-window stops only on an      *)
(* empty page or when the page number has reached ceil(total_count / 100)  *)
(* of the last response.                                                   *)
(***************************************************************************)
C10_StopsOnlyOnEmptyOrLastPage ==
    pc = "classify"
    => \/ j.list = <<>>
       \/ page_no >= CeilPages(total_count_of(j))

(***************************************************************************)
(* C10, as amended: with page size 100, page k is the k-th request of the  *)
(* window; reading stops exactly when the response has a status other than *)
(* "000" and "013", or its page is empty, or the page number has reached   *)
(* ceil(total_count / 100) (or the request raises); and while total_count  *)
(* has not grown, at most max(1, ceil(total_count / 100)) requests are     *)
(* made.                                                                   *)
(***************************************************************************)
C10_Pagination ==
    /\ pc \in {"fetch", "classify"} => Request[5] = 100
    \* the loop has ended: the last response gave cause
    /\ pc = "classify" => StopCause(j, page_no)
    \* the loop goes on: the response to the page before gave none
    /\ (pc = "fetch" /\ page_no > 1)
        => /\ ~StopCause(j, page_no - 1)
           /\ page_no = Len(totals) + 1
           /\ Len(rows) = page_no - 1
    /\ (pc = "fetch" /\ page_no = 1) => (totals = <<>> /\ rows = <<>>)
    \* the number of requests made, or about to be made
    /\ (pc \in {"fetch", "classify"} /\ totals # <<>> /\ NonGrowing(totals))
        => page_no <= Max(1, CeilPages(totals[1]))
    /\ (pc \in {"fetch", "classify"} /\ totals = <<>>) => page_no = 1

\* the second page of a window has been read and ended the reading by being
\* the last page
C10_Witness ==
    /\ pc = "classify"
    /\ page_no = 2
    /\ j.status = "000" /\ j.list # <<>>
    /\ total_count_of(j) = 101
    /\ Len(lst) = 2

(***************************************************************************)
(* C11: when the response to page k of a window has a status other than    *)
(* "000" and "013", the window's retrieval ends there: the stubs returned  *)
(* are those of pages 1..k-1, the next step makes no request and           *)
(* classifies them into the buffer.                                        *)
(***************************************************************************)
C11_StatusTruncatesWindow ==
    [][(pc = "classify" /\ j.status \notin AcceptedStatus)
        => /\ Len(pages) = page_no
           /\ pages[page_no] = j
           /\ lst = ConcatLists(SubSeq(pages, 1, page_no - 1))
           /\ req_no' = req_no
           /\ KeySeq(all_rows') = KeySeq(all_rows) \o ClassifiableKeys(lst)]_vars

\* the second page of a window came with a status that is not accepted and
\* with a filing listed, after a first page that listed one
C11_Witness ==
    /\ pc = "classify"
    /\ page_no = 2
    /\ j.status = "020" /\ j.list # <<>>
    /\ Len(lst) = 1

(***************************************************************************)
(* C12: an exception raised while a company-window is listed does not end  *)
(* the run: the buffer and the table are as before it, the run goes on     *)
(* with the next window (of the company, or of the next company), so that  *)
(* every company-window has been queried when the run ends, and the final  *)
(* write is made with the whole buffer.                                    *)
(***************************************************************************)
C12_ExceptionSkipsOnlyWindow ==
    /\ [][(pc = "fetch" /\ skipped' = skipped + 1)
            => /\ all_rows' = all_rows
               /\ file' = file
               /\ IF win < Len(Windows)
                  THEN pc' = "fetch" /\ idx' = idx /\ win' = win + 1
                  ELSE IF idx < Len(dim)
                       THEN pc' = "fetch" /\ idx' = idx + 1 /\ win' = 1
                       ELSE pc' = "final"]_vars
    /\ [](pc \in {"final", "done"} => queried = ExpectedQueries)
    /\ [](pc = "done" => (ckpt.mode = "wb" /\ ckpt.n = Len(all_rows)))
    /\ [](corp_master.exists => pc # "aborted")

\* a run has ended in which one window was abandoned on an exception and the
\* three others each gave rows
C12_Witness ==
    /\ pc = "done"
    /\ skipped = 1
    /\ Len(all_rows) >= 5
    /\ file.rows = all_rows

(***************************************************************************)
(* C13: whenever a request to the list endpoint is about to be made and it *)
(* is not the first of the run, a sleep of SLEEP_SEC has been made since   *)
(* the request before it: for the next page of a window, for the first     *)
(* page of the next window and for the first page of the next company.     *)
(***************************************************************************)
C13_SleepBetweenRequests ==
    (pc = "fetch" /\ req_no > 0) => sleeps >= 1

(***************************************************************************)
(* C14: a call of DartClient.get ends either with the JSON of a response   *)
(* with status code 200, or with an exception raised after max_retries     *)
(* requests have failed, by their status code or by a timeout or transport *)
(* error; the sleep before attempt n + 1 is n times sleep_sec.             *)
(***************************************************************************)
C14_RetriesThenRaises ==
    /\ \A n \in 1..Len(waits) : waits[n] = n
    /\ Len(waits) >= sent - 1
    /\ get_pc = "returned" => (get_ret = "json" /\ last_r.status_code = 200)
    /\ (get_pc = "raised" /\ last_r.status_code # 200) => sent = max_retries

(***************************************************************************)
(* C15: when the company directory does not exist, backfill_events ends    *)
(* with the error of _load_corp_master: no request is ever made to the     *)
(* list endpoint, no row is buffered and nothing is written at out_path.   *)
(***************************************************************************)
C15_MissingDirectoryAborts ==
    /\ [](~corp_master.exists
            => /\ pc \in {"start", "aborted"}
               /\ req_no = 0 /\ queried = <<>>
               /\ all_rows = <<>>
               /\ ckpt = NoCkpt)
    /\ [][~corp_master.exists => (file' = file /\ pc' = "aborted")]_vars

\* a run without directory has ended, over a table left by an earlier run
C15_Witness ==
    /\ pc = "aborted"
    /\ ~corp_master.exists
    /\ file.rows # <<>>

(***************************************************************************)
(* C16: a classified filing whose receipt date is not a date written       *)
(* YYYYMMDD is buffered like any other, with event_date None and rcept_dt  *)
(* as received, and is in the table after the final write; the run goes on *)
(* to the next window.                                                     *)
(***************************************************************************)
C16_BadDateKeepsRecord ==
    /\ [][pc = "classify"
            => /\ Len(all_rows') = Len(all_rows) + Len(ClassifiableStubs(lst))
               /\ \A k \in 1..Len(ClassifiableStubs(lst)) :
                    LET row == all_rows'[Len(all_rows) + k]
                        it == ClassifiableStubs(lst)[k]
                    IN  /\ row.rcp_no = it.rcept_no
                        /\ row.rcept_dt = it.rcept_dt
                        /\ ParsableDate(it.rcept_dt) => row.event_date # None
                        /\ ~ParsableDate(it.rcept_dt) => row.event_date = None
               /\ pc' \in {"fetch", "final"}]_vars
    /\ [](\A k \in 1..Len(file.rows) :
            ~ParsableDate(file.rows[k].rcept_dt)
            => file.rows[k].event_date = None)
    /\ []((pc = "done" /\ all_rows # <<>>) => file.rows = all_rows)

\* a run has ended that listed a filing without receipt date under the
\* catch-all title, and the table holds its row
C16_Witness ==
    /\ pc = "done"
    /\ \E k \in 1..Len(file.rows) :
        /\ file.rows[k].rcept_dt = ""
        /\ file.rows[k].event_date = None
        /\ file.rows[k].event_type = "MAJOR"
        /\ file.rows[k].rcp_no = "R2"

(***************************************************************************)
(* C17: a run over an existing directory that has ended has left a table   *)
(* with the columns OUT_COLUMNS at out_path, and the table has no row when *)
(* the listing of every company-window raised.                             *)
(***************************************************************************)
C17_EndsWithValidTable ==
    (pc = "done" /\ corp_master.exists)
    => /\ file.exists
       /\ file.columns = OUT_COLUMNS
       /\ (skipped = Len(dim) * Len(Windows)) => file.rows = <<>>

(***************************************************************************)
(* C18: a run with years = 1 over the companies A and B, against a list    *)
(* endpoint that returns one filing titled with the merger keyword for A   *)
(* and nothing for B, ends with a table of exactly one row: event_type     *)
(* "MNA", sub_type "MERGER", corp_code "A".                                *)
(***************************************************************************)
C18_EndToEndOneMerger ==
    (pc = "done" /\ filed.scripted)
    => /\ Len(file.rows) = 1
       /\ file.rows[1].event_type = "MNA"
       /\ file.rows[1].sub_type = "MERGER"
       /\ file.rows[1].corp_code = "A"
       /\ file.rows[1].rcp_no = FirstFiling.rcept_no

\* such a run has ended after all five windows of both companies were
\* queried, the filing being in the second window of A, over a table that
\* an earlier run had left with rows
C18_Witness ==
    /\ pc = "done"
    /\ filed = OneFiling("A", 90)
    /\ Len(queried) = 10
    /\ Len(ckpt.old.rows) = 2
    /\ Len(file.rows) = 1

(***************************************************************************)
(* C19: in the table enrich_events_detail writes, every amount,            *)
(* counterparty and summary that was non-empty in the input table is the   *)
(* same, whatever was extracted for its receipt number; this holds too     *)
(* when the input is the output of an earlier enrichment.                  *)
(***************************************************************************)
C19_EnrichmentFillsOnly ==
    en_pc = "done"
    => /\ Len(events_out.rows) = Len(events_in.rows)
       /\ \A k \in 1..Len(events_in.rows) :
            LET old == events_in.rows[k]
                new == events_out.rows[k]
            IN  /\ (old.amount \notin {None, ""}) => new.amount = old.amount
                /\ (old.counterparty \notin {None, ""})
                     => new.counterparty = old.counterparty
                /\ (old.summary \notin {None, ""}) => new.summary = old.summary

\* a row with an amount has been enriched while another amount had been
\* extracted for its receipt number, and a row of the same receipt number
\* without amount got the extracted one
C19_Witness ==
    /\ en_pc = "done"
    /\ events_in.rows = <<ENRICHED_ROW, FRESH_ROW>>
    /\ add_of(enriched, "R1").amount = "9,999"
    /\ events_out.rows[1].amount = "1,234,567"
    /\ events_out.rows[2].amount = "9,999"

(***************************************************************************)
(* C20: the table enrich_events_detail writes has the rows of its input,   *)
(* as many and in the same order, and in every row the columns rcp_no,     *)
(* corp_code, event_date, event_type, sub_type, report_nm and rcept_dt are *)
(* as in the input.                                                        *)
(***************************************************************************)
C20_EnrichmentKeepsRecords ==
    en_pc = "done"
    => /\ events_out.exists
       /\ events_out.columns = events_in.columns
       /\ Len(events_out.rows) = Len(events_in.rows)
       /\ \A k \in 1..Len(events_in.rows) :
            \A c \in {"rcp_no", "corp_code", "event_date", "event_type",
                       "sub_type", "report_nm", "rcept_dt"} :
                events_out.rows[k][c] = events_in.rows[k][c]

\* a table with a row without receipt number and two rows of one receipt
\* number has been enriched, and something was extracted
C20_Witness ==
    /\ en_pc = "done"
    /\ Len(events_in.rows) >= 2
    /\ \E k \in 1..Len(events_in.rows) : events_in.rows[k].rcp_no = None
    /\ enriched # <<>>
    /\ \E k \in 1..Len(enriched) : enriched[k].add # NothingExtracted
    /\ events_out.rows # events_in.rows

(***************************************************************************)
(* C21 as stated: the candidate texts of a filing are the texts of the     *)
(* manifest documents in manifest order followed by the viewer fallback    *)
(* text, and each of amount, counterparty and summary returned is the      *)
(* first non-empty value the extractor finds over that sequence; a field   *)
(* no manifest document yields comes from the viewer fallback text.        *)
(***************************************************************************)
C21_ViewerTextAlwaysCandidate ==
    HasReturned =>
        FirstPerField(LastReturned.add,
                      ManifestTexts(items, remote)
                      \o ViewerText(remote, LastReturned.rcp))

(***************************************************************************)
(* C21 amended: the candidate texts of a filing are the texts of the       *)
(* manifest documents in manifest order or, only when there is none, the   *)
(* viewer fallback text; each of amount, counterparty and summary returned *)
(* is the first non-empty value the extractor finds over that sequence,    *)
(* and stays empty when the sequence yields none.                          *)
(***************************************************************************)
C21_FirstNonEmptyPerField ==
    HasReturned =>
        /\ texts = IF ManifestTexts(items, remote) # <<>>
                   THEN ManifestTexts(items, remote)
                   ELSE ViewerText(remote, LastReturned.rcp)
        /\ FirstPerField(LastReturned.add, texts)

\* two manifest documents were read: the counterparty comes from the first,
\* the amount from the second, and the viewer page, which holds another
\* amount, was not asked for
C21_Witness ==
    /\ HasReturned
    /\ Len(ManifestTexts(items, remote)) = 2
    /\ ~truthy(_extract_from_text(texts[1]).amount)
    /\ truthy(_extract_from_text(texts[1]).counterparty)
    /\ AsText(LastReturned.add.amount) = _extract_from_text(texts[2]).amount
    /\ AsText(LastReturned.add.counterparty) = <<"Y">>
    /\ AsText(LastReturned.add.amount) = <<"8", "9">>
    /\ ViewerText(remote, LastReturned.rcp) # <<>>
    /\ CallsOf("viewer") = <<>>

(***************************************************************************)
(* C22: no blob longer than TEXT_BYTES_LIMIT bytes, whether the manifest   *)
(* document, an attachment or a viewer page, is handed to a parser, and a  *)
(* blob of exactly TEXT_BYTES_LIMIT bytes is.                              *)
(***************************************************************************)
C22_OversizedBlobsDiscarded ==
    /\ \A k \in 1..Len(parsed) : parsed[k].size <= TEXT_BYTES_LIMIT
    /\ \A k \in 1..Len(calls) :
        (~calls[k].got.raises /\ calls[k].got.size = TEXT_BYTES_LIMIT)
            => \E n \in 1..Len(parsed) : parsed[n] = calls[k].got

(***************************************************************************)
(* C23: the manifest items looked at for a filing hold no two items with   *)
(* the same (name, url), are in manifest order, leave out an item of the   *)
(* manifest only when it repeats an earlier one or the cap is reached, and *)
(* are at most MAX_DOCS_PER_EVENT; at most MAX_DOCS_PER_EVENT attachments  *)
(* are fetched for the filing.                                             *)
(***************************************************************************)
C23_ItemsUniqueOrderedCapped ==
    te_pc \in {"attach", "viewer", "extract"} =>
        LET listed == IF truthy_bytes(xml_bytes)
                      THEN items_of(xml_bytes.nodes) ELSE <<>>
        IN /\ \A a, b \in 1..Len(items) : a # b => items[a] # items[b]
           /\ Len(items) <= MAX_DOCS_PER_EVENT
           /\ \E f \in [1..Len(items) -> 1..Len(listed)] :
                /\ \A a, b \in 1..Len(items) : a < b => f[a] < f[b]
                /\ \A a \in 1..Len(items) : items[a] = listed[f[a]]
           /\ \/ Len(items) = MAX_DOCS_PER_EVENT
              \/ \A n \in 1..Len(listed) :
                    \E a \in 1..Len(items) : items[a] = listed[n]
           /\ Len(CallsOf("attachment")) <= MAX_DOCS_PER_EVENT
           /\ \A k \in 1..Len(CallsOf("attachment")) :
                \E a \in 1..Len(items) : items[a].url = CallsOf("attachment")[k].url

\* a manifest that lists a document twice and then another one: both
\* documents were fetched, each once
C23_Witness ==
    /\ te_pc = "extract"
    /\ Len(xml_bytes.nodes) = 3
    /\ xml_bytes.nodes[1] = xml_bytes.nodes[2]
    /\ Len(items) = 2
    /\ Len(CallsOf("attachment")) = 2

(***************************************************************************)
(* C24: when the manifest of a filing is unavailable or lists no item, the *)
(* viewer URLs are fetched in their fixed order; the first page whose      *)
(* cleaned text holds a salience keyword becomes the only candidate text   *)
(* and no viewer URL is fetched after it; a page without a salience        *)
(* keyword is never a candidate text.                                      *)
(***************************************************************************)
C24_ViewerFallbackFirstSalient ==
    (te_pc \in {"viewer", "extract"} /\ items = <<>>) =>
        LET urls == _viewer_urls(rcp_no)
            vc == CallsOf("viewer")
            salient == SalientPages(remote, rcp_no)
        IN /\ Len(vc) <= Len(urls)
           /\ \A k \in 1..Len(vc) :
                vc[k].url = urls[k] /\ vc[k].got = remote.page[urls[k]]
           /\ \A k \in 1..Len(texts) : Salient(texts[k])
           /\ \A k \in salient : Len(vc) <= k
           /\ te_pc = "extract" =>
                /\ texts = ViewerText(remote, rcp_no)
                /\ salient = {} => Len(vc) = Len(urls)
                /\ salient # {} => Len(vc) \in salient

\* no manifest: the first viewer page has a text without a keyword, the
\* second one a text with a keyword, which is the candidate text
C24_Witness ==
    /\ te_pc = "extract" /\ items = <<>> /\ ~truthy_bytes(xml_bytes)
    /\ Len(CallsOf("viewer")) = 2
    /\ DocText(CallsOf("viewer")[1].got) # <<>>
    /\ ~Salient(DocText(CallsOf("viewer")[1].got))
    /\ texts = <<DocText(CallsOf("viewer")[2].got)>>

(***************************************************************************)
(* C25: no failure met while the documents of a filing are processed       *)
(* (manifest fetch, manifest parsing, attachment or viewer fetch, text     *)
(* cleaning, field extraction) leaves try_enrich_one as an exception and   *)
(* aborts enrich_events_detail.                                            *)
(***************************************************************************)
C25_FilingFailureNeverAborts ==
    te_pc # "raised"

C27_SummaryWithinBudget ==
    tx_pc = "returned" =>
        IF text = <<>> THEN tx_ret = NoneStr
        ELSE LET para == Paragraph(text)
             IN /\ tx_ret # NoneStr
                /\ Len(tx_ret) <= SUMMARY_LEN + 1
                /\ Len(para) <= SUMMARY_LEN => tx_ret = para
                /\ Len(para) > SUMMARY_LEN =>
                     \E n \in 0..SUMMARY_LEN :
                         /\ tx_ret = Append(SubSeq(para, 1, n), ELLIPSIS)
                         /\ n = 0 \/ para[n] # " "
                         /\ \A i \in (n + 1)..SUMMARY_LEN : para[i] = " "

\* a text of more than one paragraph whose first paragraph is over the
\* budget and has a blank at the cut
C27_Witness ==
    /\ tx_pc = "returned"
    /\ \E i \in 1..Len(text) : text[i] = NL
    /\ Len(Paragraph(text)) > SUMMARY_LEN
    /\ Paragraph(text)[SUMMARY_LEN] = " "
    /\ Len(tx_ret) \in 2..SUMMARY_LEN

(***************************************************************************)
(* C28: every rule of EVENT_RULES is reachable: the title that is a rule's *)
(* keyword is classified with that rule's (event_type, sub_type), which    *)
(* is the case exactly when the keyword contains no keyword of an earlier  *)
(* rule.                                                                   *)
(***************************************************************************)
C28_EveryRuleReachable ==
    \A k \in 1..Len(EVENT_RULES) :
        (cls_pc = "returned" /\ report_nm = EVENT_RULES[k].kw)
        => cls_result = <<EVENT_RULES[k].etype, EVENT_RULES[k].sub>>

(***************************************************************************)
(* C29: a call of DartClient.get sends at most max_retries requests, and   *)
(* when it returns, it returns the JSON body of a response with status     *)
(* code 200, never None.                                                   *)
(***************************************************************************)
C29_GetNeverReturnsNone ==
    /\ sent <= max_retries
    /\ get_pc = "returned"
        => (get_ret # None /\ exchanges[sent] = Response(200, TRUE))

(***************************************************************************)
(* C30: while a company-window is being listed the buffer does not change, *)
(* and when a request of the window raises, for page 1 or a later page,    *)
(* the stubs read so far are dropped: they are not handed to the           *)
(* classification and the run goes to the next window with the buffer as   *)
(* it was when the window started.                                         *)
(***************************************************************************)
C30_ExceptionDropsWholeWindow ==
    /\ [][pc = "fetch" => (all_rows' = all_rows /\ file' = file)]_vars
    /\ [][(pc = "fetch" /\ skipped' = skipped + 1)
            => /\ pc' # "classify"
               /\ rows' = <<>> /\ lst' = lst
               /\ <<idx', win'>> # <<idx, win>> \/ pc' = "final"]_vars

\* the request for page 2 of the first window raised after page 1 had listed
\* a classifiable filing: the run is at the second window with an empty
\* buffer
C30_Witness ==
    /\ pc = "fetch" /\ win = 2 /\ idx = 1
    /\ skipped = 1
    /\ req_no = 2
    /\ Len(queried) = 1
    /\ all_rows = <<>>

====
